---- MODULE Spec2Model ----
(***************************************************************************)
(* Admin authentication of the Evolvo marketplace server:                  *)
(* server/adminAuth.ts (token issue and verification, the authorization    *)
(* middleware, the login and logout handlers, the login rate limiter),     *)
(* the credential store of server/storage.ts and the routes of             *)
(* server/routes.ts that mount them.                                       *)
(*                                                                         *)
(* Time is wall-clock time in milliseconds (Date.now()).  A request is a   *)
(* slot of reqs that moves through the awaits of its handler; the store    *)
(* and the limiter's counters are shared between the slots.                *)
(***************************************************************************)
EXTENDS Integers, Sequences, FiniteSets, TLC

\* ------------------------------------------------------------- bounds
MaxReq == 2          \* request slots: requests in flight at once
MaxTicks == 2        \* clock advances in one behaviour
MaxLogins == 7       \* login requests recorded per client address
MaxRun == 2          \* consecutive logouts counted
MaxIssued == 2       \* tokens issued in a behaviour of SpecToken
AuthLogins == 1      \* login requests in a behaviour of Spec
MaxUpserts == 2      \* writes to the credential store in one behaviour
MaxBoots == 2        \* calls of initializeAdminUser in one behaviour
BootLogins == 1      \* login requests in a behaviour of SpecBoot
OutcomeLogins == 6   \* login requests in a behaviour of SpecOutcome
OutcomeUpserts == 1  \* writes to the store in a behaviour of SpecOutcome
MaxRev == 1          \* changes of updatedAt on one content row
MaxRows == 2         \* content rows the tables hold at one time
MaxViews == 1        \* views counted on one blog post

\* ---------------------------------------------------------------- state
VARIABLES
    now,        \* Date.now(), milliseconds
    ticks,      \* clock advances so far
    users,      \* the users table: id -> row, or NoUser
    upserts,    \* writes to the users table so far
    hits,       \* the limiter's store: address -> [totalHits, resetTime]
    reqs,       \* the requests in flight, one per slot
    cookie,     \* the client's admin_token cookie
    issued,     \* the tokens issued, each with the row it was issued from and when
    log,        \* per address, the login requests in order of arrival
    opened,     \* per address, the arrival time of its first login request
    logoutRun,  \* logout responses the client received in a row, up to MaxRun
    env,        \* process.env: NODE_ENV, JWT_SECRET, ADMIN_EMAIL, ADMIN_PASSWORD
    boot,       \* the process: the auth module's evaluation and initializeAdminUser
    refused,    \* the tokens of logins that authenticateAdmin has answered 403, and why
    data,       \* the content tables: table -> the row with id r1, or NoRow
    loggedOut   \* the tokens whose logout has been answered

vars == <<now, ticks, users, upserts, hits, reqs, cookie, issued, log, opened, logoutRun,
         env, boot, refused, data, loggedOut>>

\* ---------------------------------------------------- program constants
WindowMs == 15 * 60 * 1000            \* loginRateLimit.windowMs
MaxHits == 5                          \* loginRateLimit.max
JwtExpiresSec == 24 * 60 * 60         \* JWT_EXPIRES_IN = '24h', in seconds
DayMs == JwtExpiresSec * 1000
HalfSec == 1000 \div 2                \* half of one of the token's seconds

\* process.env: a variable is unset (undefined) or holds a string.
Unset == [set |-> FALSE]
Env(v) == [set |-> TRUE, value |-> v]
\* !process.env.X for a variable that holds text
Falsy(x) == ~x.set \/ x.value = ""

FallbackSecret == "dev-jwt-secret-key-for-testing-32-chars-minimum-required-secure"
ServerSecret == "server-secret"

\* const JWT_SECRET = process.env.JWT_SECRET || <fallback>
JWT_SECRET == IF Falsy(env.JWT_SECRET) THEN FallbackSecret ELSE env.JWT_SECRET.value

\* ------------------------------------------------------------ values
Slots == 1..MaxReq
Ids == {"u1", "u2"}
Roles == {"admin", "user"}
Passwords == {"pw1", "pw2"}

\* E-mail addresses are sequences of characters, so that the format check
\* is computed and not assumed.
EmailA == <<"a", "@", "x", ".", "z">>
EmailB == <<"b", "@", "x", ".", "z">>
EmailNoDot == <<"a", "@", "x">>
EmailSpace == <<"a", " ", "@", "x", ".", "z">>
EmailFormFeed == <<"a", "\f", "@", "x", ".", "z">>
EmailNoBreak == <<"a", "@", "x", ".", " ", "z">>
EmailMissing == << >>
StoredEmails == {EmailA, EmailB}
RequestEmails ==
    {EmailA, EmailB, EmailNoDot, EmailSpace, EmailFormFeed, EmailNoBreak, EmailMissing}
RequestPasswords == Passwords \cup {""}

NoHash == [alg |-> "none"]
NoUser == [absent |-> TRUE]
NoToken == [form |-> "none"]
GarbageToken == [form |-> "garbage"]
NoPayload == [form |-> "null"]
NoBody == [message |-> ""]

\* bcrypt.hash(password, 12): the hash remembers the plaintext it was made of.
hashPassword(password) == [alg |-> "bcrypt", cost |-> 12, pw |-> password]

\* bcrypt.compare(password, hash).
verifyPassword(password, hashedPassword) ==
    hashedPassword.alg = "bcrypt" /\ hashedPassword.pw = password

\* \s of a JavaScript regular expression without the u flag: the white space
\* and the line terminators of ECMAScript.  A string of this module cannot
\* hold the characters from U+2000 on; they are written by their names.
WhiteSpace ==
    {" ", "\t", "\n", "\r", "\f", "", " ", " ", "﻿",
     "U+2000", "U+2001", "U+2002", "U+2003", "U+2004", "U+2005", "U+2006",
     "U+2007", "U+2008", "U+2009", "U+200A", "U+2028", "U+2029", "U+202F",
     "U+205F", "U+3000"}
IsSpace(c) == c \in WhiteSpace

\* EMAIL_REGEX = /^[^\s@]+@[^\s@]+\.[^\s@]+$/
isValidEmail(email) ==
    \E i \in 1..Len(email) : \E j \in 1..Len(email) :
        /\ email[i] = "@"
        /\ i > 1
        /\ email[j] = "."
        /\ j > i + 1
        /\ j < Len(email)
        /\ \A k \in 1..Len(email) :
              k # i => (~IsSpace(email[k]) /\ email[k] # "@")

\* --------------------------------------------------------------- tokens
\* jwt.sign(payload, secret, {expiresIn: '24h'}): iat is the time of signing in
\* whole seconds, exp is iat plus the lifetime; key stands for the signature.
sign(payload, secret, nowMs) ==
    [form |-> "jwt", userId |-> payload.userId, email |-> payload.email,
     role |-> payload.role, type |-> payload.type,
     iat |-> nowMs \div 1000, exp |-> (nowMs \div 1000) + JwtExpiresSec,
     key |-> secret]

\* generateToken without the discriminator.
generateToken_NoType(user, nowMs) ==
    sign([userId |-> user.id, email |-> user.email, role |-> user.role,
          type |-> ""], JWT_SECRET, nowMs)

generateToken(user, nowMs) ==
    sign([userId |-> user.id, email |-> user.email, role |-> user.role,
          type |-> "admin"], JWT_SECRET, nowMs)

\* jwt.verify that does not look at exp.
jwtVerifyThrows_NoExpiry(token, secret, nowMs) ==
    \/ token.form # "jwt"
    \/ token.key # secret

\* jwt.verify that still accepts a token in the second of its expiry.
jwtVerifyThrows_LateExpiry(token, secret, nowMs) ==
    \/ token.form # "jwt"
    \/ token.key # secret
    \/ (nowMs \div 1000) > token.exp

\* jwt.verify(token, secret): throws on a malformed token, a bad signature or
\* clockTimestamp >= exp, clockTimestamp being floor(Date.now() / 1000).
jwtVerifyThrows(token, secret, nowMs) ==
    \/ token.form # "jwt"
    \/ token.key # secret
    \/ (nowMs \div 1000) >= token.exp

Payload(token) ==
    [form |-> "payload", userId |-> token.userId, email |-> token.email,
     role |-> token.role, type |-> token.type, iat |-> token.iat, exp |-> token.exp]

verifyToken(token, nowMs) ==
    IF jwtVerifyThrows(token, JWT_SECRET, nowMs) THEN NoPayload ELSE Payload(token)

\* ------------------------------------------------------- token inputs
\* Tokens a client can present besides the ones login issued: nothing, a
\* string that is no JWT, a JWT signed with another key, and JWTs that carry
\* the server's signature over claims login never writes.
ForgedToken ==
    sign([userId |-> "u1", email |-> EmailA, role |-> "admin", type |-> "admin"],
         "other-secret", 0)
WrongTypeToken ==
    sign([userId |-> "u1", email |-> EmailA, role |-> "admin", type |-> "user"],
         JWT_SECRET, 0)
WrongRoleToken ==
    sign([userId |-> "u1", email |-> EmailA, role |-> "user", type |-> "admin"],
         JWT_SECRET, 0)
GhostToken ==
    sign([userId |-> "u9", email |-> EmailA, role |-> "admin", type |-> "admin"],
         JWT_SECRET, 0)
CraftedTokens == {GarbageToken, ForgedToken, WrongTypeToken, WrongRoleToken, GhostToken}

Addrs == {"ip1", "ip2"}

\* The content tables of the store, each reduced to the row with id r1.
Tables == {"services", "orders", "clients", "blogPosts", "inquiries", "aiRecommendations"}
NoRow == [present |-> FALSE]
Row(rev, status, viewCount) ==
    [present |-> TRUE, rev |-> rev, status |-> status, viewCount |-> viewCount]
NoRoute ==
    [method |-> "", path |-> "", guard |-> "none", table |-> "", op |-> "",
     invalid |-> "", notFound |-> "", failed |-> ""]

IdleReq ==
    [kind |-> "idle", pc |-> "idle", ip |-> "none", token |-> NoToken,
     email |-> EmailMissing, password |-> "", user |-> NoUser,
     status |-> 0, body |-> NoBody, setCookie |-> "none", newToken |-> NoToken,
     nextCalled |-> FALSE, decoded |-> NoPayload, adminUser |-> NoPayload,
     logged |-> "",
     lookups |-> 0, verifierCalls |-> 0, logIx |-> 0, checkedAt |-> 0,
     threw |-> "", route |-> NoRoute, valid |-> TRUE, bodyStatus |-> "", bodyViews |-> -1,
     entered |-> FALSE, seen |-> NoRow]

\* res.status(code).json(body), with the security event logged before it.
Respond(r, code, body, event) ==
    [r EXCEPT !.pc = "finish", !.status = code, !.body = body, !.logged = event]

\* --------------------------------------------------------------- storage
\* DatabaseStorage.getUser
getUser(store, id) == IF id \in DOMAIN store THEN store[id] ELSE NoUser

\* DatabaseStorage.getUserByEmail
getUserByEmail(store, email) ==
    IF \E id \in DOMAIN store : store[id] # NoUser /\ store[id].email = email
    THEN store[CHOOSE id \in DOMAIN store : store[id] # NoUser /\ store[id].email = email]
    ELSE NoUser

\* users.email is unique: a write that would give two rows one e-mail throws.
upsertThrows(store, userData) ==
    \E id \in DOMAIN store :
        id # userData.id /\ store[id] # NoUser /\ store[id].email = userData.email

\* DatabaseStorage.upsertUser: insert, or on a conflict of id update the row.
upsertUser(store, userData) ==
    IF upsertThrows(store, userData) THEN store
    ELSE [id \in DOMAIN store \cup {userData.id} |->
            IF id = userData.id THEN userData ELSE store[id]]

UserRows ==
    [id : Ids, email : StoredEmails, role : Roles,
     passwordHash : {NoHash} \cup {hashPassword(p) : p \in Passwords}]

\* ------------------------------------------------- start of the process
\* A module that only looks whether JWT_SECRET is defined.
authModuleThrows_UnsetOnly(e) == e.NODE_ENV = "production" /\ ~e.JWT_SECRET.set

\* The auth module's top level: in production it throws when JWT_SECRET is
\* not set, whether undefined or empty.
authModuleThrows(e) == e.NODE_ENV = "production" /\ Falsy(e.JWT_SECRET)

\* The process before the auth module is evaluated.
NoBoot ==
    [module |-> "unloaded", pc |-> "idle", outcome |-> "none", error |-> "",
     logged |-> FALSE, runs |-> 0, adminEmail |-> EmailMissing,
     adminPassword |-> "", hashed |-> NoHash, row |-> NoUser, before |-> << >>]

\* Evaluation of server/adminAuth.ts when server/routes.ts imports it: the
\* module's exports exist only if it did not throw.
loadAuthModule(b, e) ==
    [b EXCEPT !.module = IF authModuleThrows(e) THEN "threw" ELSE "loaded"]

DefaultAdminEmail ==
    <<"a", "d", "m", "i", "n", "@", "e", "v", "o", "l", "v", "o", ".", "u", "z">>
DefaultAdminPassword == "SecureAdmin123!"

\* id: `admin-${Date.now()}`
AdminId(nowMs) == "admin-" \o ToString(nowMs)

\* A catch block that logs the error and never throws it again.
initializeAdminUserCatch_Swallow(b, e, error) ==
    [b EXCEPT !.pc = "done", !.error = error, !.logged = TRUE, !.outcome = "resolved"]

\* initializeAdminUser's catch block: the error is logged, and thrown again
\* in production only.
initializeAdminUserCatch(b, e, error) ==
    [b EXCEPT !.pc = "done", !.error = error, !.logged = TRUE,
              !.outcome = IF e.NODE_ENV = "production" THEN "rejected" ELSE "resolved"]

\* initializeAdminUser without the production check of ADMIN_PASSWORD.
initializeAdminUserStart_NoCheck(b, e, store) ==
    [b EXCEPT !.runs = @ + 1, !.outcome = "none", !.error = "",
              !.logged = FALSE, !.hashed = NoHash, !.before = store,
              !.pc = "getUserByEmail",
              !.adminEmail = IF ~e.ADMIN_EMAIL.set \/ e.ADMIN_EMAIL.value = EmailMissing
                             THEN DefaultAdminEmail ELSE e.ADMIN_EMAIL.value,
              !.adminPassword = IF Falsy(e.ADMIN_PASSWORD)
                                THEN DefaultAdminPassword ELSE e.ADMIN_PASSWORD.value]

\* initializeAdminUser up to its await of storage.getUserByEmail.
initializeAdminUserStart(b, e, store) ==
    LET adminEmail == IF ~e.ADMIN_EMAIL.set \/ e.ADMIN_EMAIL.value = EmailMissing
                      THEN DefaultAdminEmail ELSE e.ADMIN_EMAIL.value
        adminPassword == IF Falsy(e.ADMIN_PASSWORD)
                         THEN DefaultAdminPassword ELSE e.ADMIN_PASSWORD.value
        q == [b EXCEPT !.runs = @ + 1, !.outcome = "none", !.error = "",
                       !.logged = FALSE, !.hashed = NoHash, !.before = store,
                       !.adminEmail = adminEmail, !.adminPassword = ""]
    IN  IF e.NODE_ENV = "production" /\ Falsy(e.ADMIN_PASSWORD)
        THEN initializeAdminUserCatch(q, e, "ADMIN_PASSWORD required")
        ELSE [q EXCEPT !.pc = "getUserByEmail", !.adminPassword = adminPassword]

\* initializeAdminUser that creates the account whether or not it is there.
initializeAdminUserLookup_NoReturn(b, e, existingAdmin, throws) ==
    IF throws THEN initializeAdminUserCatch(b, e, "getUserByEmail")
    ELSE [b EXCEPT !.pc = "hashPassword"]

\* initializeAdminUser from the result of storage.getUserByEmail on.
initializeAdminUserLookup(b, e, existingAdmin, throws) ==
    IF throws THEN initializeAdminUserCatch(b, e, "getUserByEmail")
    ELSE IF existingAdmin # NoUser
    THEN [b EXCEPT !.pc = "done", !.outcome = "resolved"]
    ELSE [b EXCEPT !.pc = "hashPassword"]

\* A bootstrap that leaves the role to the column's default.
AdminRow_DefaultRole(b, nowMs) ==
    [id |-> AdminId(nowMs), email |-> b.adminEmail, role |-> "user",
     passwordHash |-> b.hashed]

\* The row initializeAdminUser writes.
AdminRow(b, nowMs) ==
    [id |-> AdminId(nowMs), email |-> b.adminEmail, role |-> "admin",
     passwordHash |-> b.hashed]

\* initializeAdminUser from the result of hashPassword on: the row is built,
\* its id from Date.now() at this moment, and storage.upsertUser is called.
initializeAdminUserHash(b, e, throws, nowMs) ==
    IF throws THEN initializeAdminUserCatch(b, e, "hashPassword")
    ELSE LET h == [b EXCEPT !.hashed = hashPassword(b.adminPassword)]
         IN  [h EXCEPT !.pc = "upsertUser", !.row = AdminRow(h, nowMs)]

\* initializeAdminUser from the result of storage.upsertUser on.
initializeAdminUserUpsert(b, e, throws) ==
    IF throws THEN initializeAdminUserCatch(b, e, "upsertUser")
    ELSE [b EXCEPT !.pc = "done", !.outcome = "resolved"]

\* ---------------------------------------------------------- rate limiter
\* express-rate-limit with its memory store: a client's window opens at its
\* first hit and lasts windowMs; a hit at or after resetTime starts a new one.
NoClient == [totalHits |-> 0, resetTime |-> 0]

\* A limiter whose first window never ends.
rateLimitIncrement_NoReset(client, nowMs) ==
    [client EXCEPT !.totalHits = @ + 1,
                   !.resetTime = IF @ = 0 THEN nowMs + WindowMs ELSE @]

rateLimitIncrement(client, nowMs) ==
    LET c == IF client.resetTime <= nowMs
             THEN [totalHits |-> 0, resetTime |-> nowMs + WindowMs]
             ELSE client
    IN  [c EXCEPT !.totalHits = @ + 1]

\* A limiter that forgets the client's count when a request succeeds.
rateLimitDecrement_Reset(client) == [client EXCEPT !.totalHits = 0]

rateLimitDecrement(client) ==
    IF client.totalHits > 0 THEN [client EXCEPT !.totalHits = @ - 1] ELSE client

\* A limiter that refuses the request whose hit reaches max.
rateLimited_AtMax(client) == client.totalHits >= MaxHits

\* max: 5 -- the request is refused when its own hit makes the count exceed max.
rateLimited(client) == client.totalHits > MaxHits

\* A limiter that counts credential failures only.
requestWasSuccessful_Only401Fails(r) == r.status # 401

\* A limiter without skipSuccessfulRequests: every hit stays counted.
requestWasSuccessful_Never(r) == r.status < 0

\* skipSuccessfulRequests: the hit is taken back when the response finishes
\* with a status below 400.
requestWasSuccessful(r) == r.status < 400

RateLimitBody ==
    [message |-> "Too many login attempts. Please try again in 15 minutes.",
     error |-> "RATE_LIMITED"]

loginRateLimit(r, client) ==
    IF rateLimited(client) THEN Respond(r, 429, RateLimitBody, "")
    ELSE [r EXCEPT !.pc = "adminLogin", !.nextCalled = TRUE]

\* ------------------------------------------------------------ adminLogin
InvalidCredentials == [message |-> "Invalid credentials"]

\* adminLogin up to its first await: input validation.
adminLoginStart(r) ==
    IF r.email = EmailMissing \/ r.password = ""
    THEN Respond(r, 400, [message |-> "Email and password required"],
                 "LOGIN_MISSING_CREDENTIALS")
    ELSE IF ~isValidEmail(r.email)
    THEN Respond(r, 400, [message |-> "Invalid email format"],
                 "LOGIN_INVALID_EMAIL_FORMAT")
    ELSE [r EXCEPT !.pc = "getUserByEmail"]

\* adminLogin that does not look at the account's role.
adminLoginLookup_NoRoleCheck(r, user) ==
    LET q == [r EXCEPT !.user = user, !.lookups = @ + 1]
    IN  IF user = NoUser
        THEN Respond(q, 401, InvalidCredentials, "LOGIN_FAILED:user_not_found")
        ELSE IF user.passwordHash = NoHash
        THEN Respond(q, 401, InvalidCredentials, "LOGIN_FAILED:missing_password_hash")
        ELSE [q EXCEPT !.pc = "verifyPassword"]

\* adminLogin that hands a missing hash to the verifier.
adminLoginLookup_NoHashCheck(r, user) ==
    LET q == [r EXCEPT !.user = user, !.lookups = @ + 1]
    IN  IF user = NoUser
        THEN Respond(q, 401, InvalidCredentials, "LOGIN_FAILED:user_not_found")
        ELSE IF user.role # "admin"
        THEN Respond(q, 401, InvalidCredentials, "LOGIN_FAILED:not_admin")
        ELSE [q EXCEPT !.pc = "verifyPassword"]

\* adminLogin that tells an unknown e-mail from a wrong password.
adminLoginLookup_SaysNotFound(r, user) ==
    LET q == [r EXCEPT !.user = user, !.lookups = @ + 1]
    IN  IF user = NoUser
        THEN Respond(q, 401, [message |-> "User not found"], "LOGIN_FAILED:user_not_found")
        ELSE IF user.role # "admin"
        THEN Respond(q, 401, InvalidCredentials, "LOGIN_FAILED:not_admin")
        ELSE IF user.passwordHash = NoHash
        THEN Respond(q, 401, InvalidCredentials, "LOGIN_FAILED:missing_password_hash")
        ELSE [q EXCEPT !.pc = "verifyPassword"]

\* adminLogin from the result of storage.getUserByEmail to its next await.
adminLoginLookup(r, user) ==
    LET q == [r EXCEPT !.user = user, !.lookups = @ + 1]
    IN  IF user = NoUser
        THEN Respond(q, 401, InvalidCredentials, "LOGIN_FAILED:user_not_found")
        ELSE IF user.role # "admin"
        THEN Respond(q, 401, InvalidCredentials, "LOGIN_FAILED:not_admin")
        ELSE IF user.passwordHash = NoHash
        THEN Respond(q, 401, InvalidCredentials, "LOGIN_FAILED:missing_password_hash")
        ELSE [q EXCEPT !.pc = "verifyPassword"]

\* adminLogin that sets the cookie before it knows the password is right.
adminLoginVerify_CookieFirst(r, nowMs) ==
    LET adminUser == [id |-> r.user.id, email |-> r.user.email, role |-> r.user.role]
        q == [r EXCEPT !.verifierCalls = @ + 1, !.setCookie = "set",
                       !.newToken = generateToken(adminUser, nowMs)]
    IN  IF ~verifyPassword(r.password, r.user.passwordHash)
        THEN Respond(q, 401, InvalidCredentials, "LOGIN_FAILED:invalid_password")
        ELSE Respond(q, 200, [message |-> "Login successful", user |-> adminUser],
                     "LOGIN_SUCCESS")

\* adminLogin from the result of verifyPassword to its response.
adminLoginVerify(r, nowMs) ==
    LET q == [r EXCEPT !.verifierCalls = @ + 1]
        adminUser == [id |-> r.user.id, email |-> r.user.email, role |-> r.user.role]
    IN  IF ~verifyPassword(r.password, r.user.passwordHash)
        THEN Respond(q, 401, InvalidCredentials, "LOGIN_FAILED:invalid_password")
        ELSE [Respond(q, 200, [message |-> "Login successful", user |-> adminUser],
                      "LOGIN_SUCCESS")
                EXCEPT !.setCookie = "set", !.newToken = generateToken(adminUser, nowMs)]

\* A catch block that answers like a wrong password.
adminLoginCatch_Says401(r) ==
    Respond(r, 401, InvalidCredentials, "LOGIN_ERROR")

\* adminLogin's catch block, entered when an awaited call throws; what the
\* response already carries stays on it.
adminLoginCatch(r) ==
    Respond(r, 500, [message |-> "Login failed"], "LOGIN_ERROR")

\* ------------------------------------------------------------ the routes
\* A registration of registerRoutes: the middleware before the handler, the
\* table the handler's storage calls go to, what the handler does, and the
\* messages of its 400, 404 and 500 responses.
Route(method, path, guard, table, op, invalid, notFound, failed) ==
    [method |-> method, path |-> path, guard |-> guard, table |-> table, op |-> op,
     invalid |-> invalid, notFound |-> notFound, failed |-> failed]

\* The routes registered with no middleware before the handler.
PublicRoutes ==
    { Route("GET", "/api/services", "none", "services", "list",
            "Invalid category parameter", "", "Failed to fetch services"),
      Route("GET", "/api/services/:id", "none", "services", "readPublic",
            "Invalid service ID", "Service not found", "Failed to fetch service"),
      Route("POST", "/api/orders", "none", "orders", "create",
            "Invalid data", "", "Failed to create order"),
      Route("GET", "/api/blog-posts", "none", "blogPosts", "list",
            "", "", "Failed to fetch blog posts"),
      Route("GET", "/api/blog-posts/:slug", "none", "blogPosts", "readPublic",
            "Invalid blog post slug", "Blog post not found", "Failed to fetch blog post"),
      Route("POST", "/api/blog-posts/:id/view", "none", "blogPosts", "view",
            "Invalid blog post ID", "Blog post not found", "Failed to increment view count"),
      Route("POST", "/api/recommendations", "none", "services", "recommend",
            "", "", "Failed to generate recommendations"),
      Route("POST", "/api/inquiries", "none", "inquiries", "create",
            "Invalid data", "", "Failed to create inquiry") }

\* The routes registered with isAuthenticated, the session check of
\* server/replitAuth.
SessionRoutes ==
    { Route("GET", "/api/auth/user", "isAuthenticated", "users", "list",
            "", "", "Failed to fetch user"),
      Route("POST", "/api/recommendations/save", "isAuthenticated", "aiRecommendations",
            "create", "Invalid data", "", "Failed to save recommendation"),
      Route("GET", "/api/recommendations", "isAuthenticated", "aiRecommendations", "list",
            "", "", "Failed to fetch recommendations") }

\* The routes registered with authenticateAdmin before their handler.
AdminRoutes ==
    { Route("POST", "/api/services", "authenticateAdmin", "services", "create",
            "Invalid data", "", "Failed to create service"),
      Route("PUT", "/api/services/:id", "authenticateAdmin", "services", "update",
            "Invalid data", "", "Failed to update service"),
      Route("DELETE", "/api/services/:id", "authenticateAdmin", "services", "delete",
            "", "", "Failed to delete service"),
      Route("GET", "/api/admin/services", "authenticateAdmin", "services", "listAll",
            "", "", "Failed to fetch services"),
      Route("GET", "/api/admin/orders", "authenticateAdmin", "orders", "list",
            "", "", "Failed to fetch orders"),
      Route("GET", "/api/admin/orders/:id", "authenticateAdmin", "orders", "read",
            "", "Order not found", "Failed to fetch order"),
      Route("POST", "/api/admin/orders", "authenticateAdmin", "orders", "create",
            "Invalid data", "", "Failed to create order"),
      Route("PUT", "/api/admin/orders/:id", "authenticateAdmin", "orders", "update",
            "Invalid data", "", "Failed to update order"),
      Route("DELETE", "/api/admin/orders/:id", "authenticateAdmin", "orders", "delete",
            "", "", "Failed to delete order"),
      Route("GET", "/api/admin/clients", "authenticateAdmin", "clients", "list",
            "", "", "Failed to fetch clients"),
      Route("GET", "/api/admin/clients/:id", "authenticateAdmin", "clients", "read",
            "", "Client not found", "Failed to fetch client"),
      Route("POST", "/api/admin/clients", "authenticateAdmin", "clients", "create",
            "Invalid data", "", "Failed to create client"),
      Route("PUT", "/api/admin/clients/:id", "authenticateAdmin", "clients", "update",
            "Invalid data", "", "Failed to update client"),
      Route("DELETE", "/api/admin/clients/:id", "authenticateAdmin", "clients", "delete",
            "", "", "Failed to delete client"),
      Route("GET", "/api/admin/blog-posts", "authenticateAdmin", "blogPosts", "list",
            "", "", "Failed to fetch blog posts"),
      Route("GET", "/api/admin/blog-posts/:id", "authenticateAdmin", "blogPosts", "read",
            "", "Blog post not found", "Failed to fetch blog post"),
      Route("POST", "/api/admin/blog-posts", "authenticateAdmin", "blogPosts", "create",
            "Invalid data", "", "Failed to create blog post"),
      Route("PUT", "/api/admin/blog-posts/:id", "authenticateAdmin", "blogPosts", "update",
            "Invalid data", "", "Failed to update blog post"),
      Route("DELETE", "/api/admin/blog-posts/:id", "authenticateAdmin", "blogPosts", "delete",
            "", "", "Failed to delete blog post"),
      Route("GET", "/api/inquiries", "authenticateAdmin", "inquiries", "list",
            "", "", "Failed to fetch inquiries"),
      Route("PUT", "/api/inquiries/:id/status", "authenticateAdmin", "inquiries", "status",
            "", "", "Failed to update inquiry status"),
      Route("POST", "/api/ai/generate-service", "authenticateAdmin", "none", "generate",
            "", "", "Failed to generate service content") }

DeleteService ==
    Route("DELETE", "/api/services/:id", "authenticateAdmin", "services", "delete",
          "", "", "Failed to delete service")

\* A route table in which deleting a service needs no token.
Routes_OpenDelete ==
    PublicRoutes \cup SessionRoutes \cup (AdminRoutes \ {DeleteService})
      \cup {[DeleteService EXCEPT !.guard = "none"]}

Routes == PublicRoutes \cup SessionRoutes \cup AdminRoutes

\* The status values a request body can carry for a row of table t; for a
\* service the value stands for isActive.  aiRecommendations has no such
\* column.
RowStatuses(t) ==
    CASE t = "blogPosts" -> {"draft", "published"}
      [] t = "inquiries" -> {"pending", "contacted"}
      [] t = "services" -> {"active", "inactive"}
      [] t = "orders" -> {"pending", "completed"}
      [] t = "clients" -> {"active", "inactive"}
      [] OTHER -> {}

\* The column default an insert takes when the body carries no status:
\* is_active default(true), status default("pending" / "draft" / "active").
ColumnDefault(t) ==
    CASE t \in {"services", "clients"} -> "active"
      [] t \in {"inquiries", "orders"} -> "pending"
      [] t = "blogPosts" -> "draft"
      [] OTHER -> ""

\* The routes whose handler tests the request before its first storage call:
\* a body against its schema, an id, a slug or a category for being blank.
Validates(route) == route.invalid # ""

\* What the public may read of a row: active services, published posts.
PublicRow(row, table) ==
    row.status = (IF table = "services" THEN "active" ELSE "published")

\* What a storage call leaves in the row: createX inserts the body's fields
\* and the column defaults of those it lacks, updateX sets the body's fields
\* and updatedAt and keeps the others, updateInquiryStatus sets the status,
\* deleteX removes the row, incrementViewCount adds one to viewCount.  A
\* status of "" and a viewCount below 0 stand for a body without the field.
storageWrite(row, op, table, status, views) ==
    CASE op = "create" ->
             Row(0, IF status = "" THEN ColumnDefault(table) ELSE status,
                 IF views < 0 THEN 0 ELSE views)
      [] op = "update" /\ row.present ->
             Row(row.rev + 1, IF status = "" THEN row.status ELSE status,
                 IF views < 0 THEN row.viewCount ELSE views)
      [] op = "status" /\ row.present -> [row EXCEPT !.status = status]
      [] op = "delete" -> NoRow
      [] op = "view" /\ row.present -> [row EXCEPT !.viewCount = @ + 1]
      [] OTHER -> row

\* storage.updateOrderStatus: the order's status and updatedAt are set.
updateOrderStatus(row, status) ==
    IF row.present THEN Row(row.rev + 1, status, row.viewCount) ELSE row

\* The handler whose first call is on a method DatabaseStorage does not
\* have: storage.getAllServices.
CallsUndefined(route) == route.op = "listAll"

\* updateServiceSchema, updateOrderSchema, updateClientSchema and
\* updateBlogPostSchema of @shared/schema: schemas of the Partial<InsertX>
\* that storage.updateX takes, every field optional.
updateSchemaParses(r) == r.valid

\* A handler from its entry to its first await.  A call of a missing method
\* throws and the catch answers 500; a body that fails its schema and a
\* blank id, slug or category are answered 400.
routeStart(r) ==
    LET q == [r EXCEPT !.entered = TRUE]
    IN  CASE CallsUndefined(r.route) -> Respond(q, 500, [message |-> r.route.failed], "")
          [] r.route.op = "update" /\ ~updateSchemaParses(r) ->
                 Respond(q, 400, [message |-> r.route.invalid], "")
          [] r.route.op # "update" /\ Validates(r.route) /\ ~r.valid ->
                 Respond(q, 400, [message |-> r.route.invalid], "")
          [] OTHER -> [q EXCEPT !.pc = "store"]

\* Whether the storage call a handler awaits first is a write.
routeWrites(r) == r.route.op \in {"create", "update", "status", "delete"}

\* A handler from the result of its first await on: of its storage call, or
\* of generateServiceContent.  storage.getServices hands over the active
\* services only.
routeStore(r, row, throws) ==
    CASE throws -> Respond(r, 500, [message |-> r.route.failed], "")
      [] r.route.op = "read" /\ ~row.present ->
             Respond(r, 404, [message |-> r.route.notFound], "")
      [] r.route.op = "readPublic" /\ (~row.present \/ ~PublicRow(row, r.route.table)) ->
             Respond(r, 404, [message |-> r.route.notFound], "")
      [] r.route.op = "view" /\ (~row.present \/ row.status # "published") ->
             Respond(r, 404, [message |-> r.route.notFound], "")
      [] r.route.op = "view" -> [r EXCEPT !.pc = "store2", !.seen = row]
      [] r.route.op = "recommend" ->
             [r EXCEPT !.pc = "store2",
                       !.seen = IF row.present /\ PublicRow(row, r.route.table)
                                 THEN row ELSE NoRow]
      [] r.route.op = "create" -> Respond(r, 201, NoBody, "")
      [] r.route.op = "delete" -> Respond(r, 204, NoBody, "")
      [] OTHER -> Respond(r, 200, NoBody, "")

\* A handler from the result of its second await on: incrementViewCount for a
\* view, generateBusinessRecommendations for POST /api/recommendations.
routeStore2(r, throws) ==
    CASE throws -> Respond(r, 500, [message |-> r.route.failed], "")
      [] r.route.op = "view" -> Respond(r, 204, NoBody, "")
      [] OTHER -> Respond(r, 200, NoBody, "")

\* isAuthenticated of server/replitAuth: the request carries a session or is
\* answered 401.
isAuthenticated(r, session) ==
    IF session THEN routeStart(r) ELSE Respond(r, 401, [message |-> "Unauthorized"], "")

\* ----------------------------------------------------- authenticateAdmin
\* authenticateAdmin that answers a missing token like an invalid one.
authenticateAdminStart_NoTokenForbidden(r, nowMs) ==
    LET decoded == IF r.token = NoToken THEN NoPayload ELSE verifyToken(r.token, nowMs)
    IN  IF decoded = NoPayload \/ decoded.type # "admin" \/ decoded.role # "admin"
        THEN Respond(r, 403, [message |-> "Admin access required"], "AUTH_INVALID_TOKEN")
        ELSE [r EXCEPT !.pc = "getUser", !.decoded = decoded]

\* authenticateAdmin that does not look at the token's type.
authenticateAdminStart_NoTypeCheck(r, nowMs) ==
    LET decoded == verifyToken(r.token, nowMs)
    IN  IF r.token = NoToken
        THEN Respond(r, 401, [message |-> "Admin authentication required"],
                     "AUTH_MISSING_TOKEN")
        ELSE IF decoded = NoPayload \/ decoded.role # "admin"
        THEN Respond(r, 403, [message |-> "Admin access required"], "AUTH_INVALID_TOKEN")
        ELSE [r EXCEPT !.pc = "getUser", !.decoded = decoded]

\* authenticateAdmin up to its await of storage.getUser.
authenticateAdminStart(r, nowMs) ==
    LET decoded == verifyToken(r.token, nowMs)
    IN  IF r.token = NoToken
        THEN Respond(r, 401, [message |-> "Admin authentication required"],
                     "AUTH_MISSING_TOKEN")
        ELSE IF decoded = NoPayload \/ decoded.type # "admin" \/ decoded.role # "admin"
        THEN Respond(r, 403, [message |-> "Admin access required"], "AUTH_INVALID_TOKEN")
        ELSE [r EXCEPT !.pc = "getUser", !.decoded = decoded]

\* A handler that answers with the account as the store has it.
getCurrentAdmin_LiveRecord(r) ==
    IF r.adminUser = NoPayload
    THEN Respond(r, 401, [message |-> "Not authenticated"], "")
    ELSE Respond(r, 200, [id |-> r.user.id, email |-> r.user.email,
                          role |-> r.user.role], "")

\* getCurrentAdmin, the handler of GET /api/auth/admin.
getCurrentAdmin(r) ==
    IF r.adminUser = NoPayload
    THEN Respond(r, 401, [message |-> "Not authenticated"], "")
    ELSE Respond(r, 200, [id |-> r.adminUser.userId, email |-> r.adminUser.email,
                          role |-> r.adminUser.role], "")

\* next(): the route's handler runs up to its first await.
next(r) ==
    IF r.kind = "auth" THEN getCurrentAdmin(r) ELSE routeStart(r)

\* authenticateAdmin that also wants the row's e-mail to be the token's.
authenticateAdminLookup_EmailCheck(r, currentUser) ==
    LET q == [r EXCEPT !.user = currentUser, !.lookups = @ + 1]
    IN  IF currentUser = NoUser
        THEN [Respond(q, 403, [message |-> "Admin access revoked"], "AUTH_USER_NOT_FOUND")
                EXCEPT !.setCookie = "clear"]
        ELSE IF currentUser.role # "admin" \/ currentUser.email # r.decoded.email
        THEN [Respond(q, 403, [message |-> "Admin privileges revoked"],
                      "AUTH_ROLE_REVOKED")
                EXCEPT !.setCookie = "clear"]
        ELSE next([q EXCEPT !.adminUser = r.decoded, !.nextCalled = TRUE])

\* authenticateAdmin that leaves the cookie of a missing account in place.
authenticateAdminLookup_KeepsCookie(r, currentUser) ==
    LET q == [r EXCEPT !.user = currentUser, !.lookups = @ + 1]
    IN  IF currentUser = NoUser
        THEN Respond(q, 403, [message |-> "Admin access revoked"], "AUTH_USER_NOT_FOUND")
        ELSE IF currentUser.role # "admin"
        THEN [Respond(q, 403, [message |-> "Admin privileges revoked"],
                      "AUTH_ROLE_REVOKED")
                EXCEPT !.setCookie = "clear"]
        ELSE next([q EXCEPT !.adminUser = r.decoded, !.nextCalled = TRUE])

\* authenticateAdmin that checks only that the account still exists.
authenticateAdminLookup_NoRoleCheck(r, currentUser) ==
    LET q == [r EXCEPT !.user = currentUser, !.lookups = @ + 1]
    IN  IF currentUser = NoUser
        THEN [Respond(q, 403, [message |-> "Admin access revoked"], "AUTH_USER_NOT_FOUND")
                EXCEPT !.setCookie = "clear"]
        ELSE next([q EXCEPT !.adminUser = r.decoded, !.nextCalled = TRUE])

\* authenticateAdmin from the result of storage.getUser on; next() runs the
\* route's handler.
authenticateAdminLookup(r, currentUser) ==
    LET q == [r EXCEPT !.user = currentUser, !.lookups = @ + 1]
    IN  IF currentUser = NoUser
        THEN [Respond(q, 403, [message |-> "Admin access revoked"], "AUTH_USER_NOT_FOUND")
                EXCEPT !.setCookie = "clear"]
        ELSE IF currentUser.role # "admin"
        THEN [Respond(q, 403, [message |-> "Admin privileges revoked"],
                      "AUTH_ROLE_REVOKED")
                EXCEPT !.setCookie = "clear"]
        ELSE next([q EXCEPT !.adminUser = r.decoded, !.nextCalled = TRUE])

\* authenticateAdmin's catch block, entered when storage.getUser throws.
authenticateAdminCatch(r) ==
    Respond(r, 500, [message |-> "Authentication error"], "AUTH_MIDDLEWARE_ERROR")

\* ----------------------------------------------------------- adminLogout
\* A logout that wants a token.
adminLogout_NeedsToken(r) ==
    IF r.token = NoToken
    THEN Respond(r, 401, [message |-> "Not authenticated"], "LOGOUT")
    ELSE [Respond(r, 200, [message |-> "Logout successful"], "LOGOUT")
            EXCEPT !.setCookie = "clear"]

adminLogout(r) ==
    [Respond(r, 200, [message |-> "Logout successful"], "LOGOUT")
        EXCEPT !.setCookie = "clear"]

\* A logout that deletes the account the token names.
adminLogoutStore_Deletes(store, token) ==
    IF token # NoToken /\ token.form = "jwt" /\ token.userId \in DOMAIN store
    THEN [store EXCEPT ![token.userId] = NoUser]
    ELSE store

\* What adminLogout does to the store: it makes no storage call.
adminLogoutStore(store, token) == store

\* --------------------------------------------------------------- actions
NewReq(kind, ip, token, email, password) ==
    [IdleReq EXCEPT !.kind = kind, !.ip = ip, !.token = token,
                    !.email = email, !.password = password]

\* A new request takes the first free slot.
Free(s) == reqs[s].pc = "idle" /\ \A x \in Slots : x < s => reqs[x].pc # "idle"

\* No request is in flight: a client that sends its requests one after another.
Quiet == \A s \in Slots : reqs[s].pc = "idle"

InFlight(ip) == {s \in Slots : reqs[s].pc # "idle" /\ reqs[s].ip = ip}

\* The tokens a client can present: none, its cookie, any token login has
\* issued (a retained copy), and the crafted ones.
Presentable == {NoToken, cookie} \cup {i.token : i \in issued} \cup CraftedTokens

\* POST /api/auth/login: loginRateLimit, then adminLogin up to its first await.
PostLogin(s, ip, email, password) ==
    /\ Free(s)
    /\ Len(log[ip]) < MaxLogins
    /\ LET client == rateLimitIncrement(hits[ip], now)
           r0 == [NewReq("login", ip, NoToken, email, password)
                    EXCEPT !.logIx = Len(log[ip]) + 1]
           r1 == loginRateLimit(r0, client)
           r2 == IF r1.pc = "adminLogin" THEN adminLoginStart(r1) ELSE r1
       IN  /\ hits' = [hits EXCEPT ![ip] = client]
           /\ reqs' = [reqs EXCEPT ![s] = r2]
           /\ opened' = IF log[ip] = << >> THEN [opened EXCEPT ![ip] = now] ELSE opened
           /\ log' = [log EXCEPT ![ip] = Append(@,
                        [status |-> r2.status, body |-> r2.body, logged |-> r2.logged,
                         setCookie |-> r2.setCookie, admitted |-> r1.nextCalled,
                         solo |-> InFlight(ip) = {},
                         before |-> IF hits[ip].resetTime <= now THEN 0
                                    ELSE hits[ip].totalHits,
                         resetTime |-> client.resetTime,
                         at |-> now,
                         inWindow |-> log[ip] = << >> \/ now < opened[ip] + WindowMs])]
    /\ UNCHANGED <<now, ticks, users, upserts, cookie, issued, logoutRun, env, boot, refused, data, loggedOut>>

\* The entry of the log that belongs to request r, brought up to date.
Logged(r) ==
    [log EXCEPT ![r.ip][r.logIx].status = r.status, ![r.ip][r.logIx].body = r.body,
                ![r.ip][r.logIx].logged = r.logged,
                ![r.ip][r.logIx].setCookie = r.setCookie]

\* storage.getUserByEmail resolves.
LoginLookup(s) ==
    /\ reqs[s].kind = "login"
    /\ reqs[s].pc = "getUserByEmail"
    /\ LET r == adminLoginLookup(reqs[s], getUserByEmail(users, reqs[s].email))
       IN  /\ reqs' = [reqs EXCEPT ![s] = r]
           /\ log' = Logged(r)
    /\ UNCHANGED <<now, ticks, users, upserts, hits, cookie, issued, opened, logoutRun, env, boot, refused, data, loggedOut>>

\* bcrypt.compare resolves.
LoginVerify(s) ==
    /\ reqs[s].kind = "login"
    /\ reqs[s].pc = "verifyPassword"
    /\ LET r == adminLoginVerify(reqs[s], now)
       IN  /\ reqs' = [reqs EXCEPT ![s] = r]
           /\ log' = Logged(r)
           /\ issued' = IF r.newToken # NoToken
                        THEN issued \cup {[token |-> r.newToken, row |-> reqs[s].user,
                                            at |-> now]}
                        ELSE issued
    /\ UNCHANGED <<now, ticks, users, upserts, hits, cookie, opened, logoutRun, env, boot, refused, data, loggedOut>>

\* storage.getUserByEmail rejects: the store fails.
LoginLookupThrows(s) ==
    /\ reqs[s].kind = "login"
    /\ reqs[s].pc = "getUserByEmail"
    /\ LET r == adminLoginCatch([reqs[s] EXCEPT !.lookups = @ + 1,
                                             !.threw = "getUserByEmail"])
       IN  /\ reqs' = [reqs EXCEPT ![s] = r]
           /\ log' = Logged(r)
    /\ UNCHANGED <<now, ticks, users, upserts, hits, cookie, issued, opened, logoutRun, env, boot, refused, data, loggedOut>>

\* bcrypt.compare rejects.
LoginVerifyThrows(s) ==
    /\ reqs[s].kind = "login"
    /\ reqs[s].pc = "verifyPassword"
    /\ LET r == adminLoginCatch([reqs[s] EXCEPT !.verifierCalls = @ + 1,
                                             !.threw = "verifyPassword"])
       IN  /\ reqs' = [reqs EXCEPT ![s] = r]
           /\ log' = Logged(r)
    /\ UNCHANGED <<now, ticks, users, upserts, hits, cookie, issued, opened, logoutRun, env, boot, refused, data, loggedOut>>

\* GET /api/auth/admin: authenticateAdmin up to its await of storage.getUser.
GetAdmin(s, ip, token) ==
    /\ Free(s)
    /\ reqs' = [reqs EXCEPT ![s] =
                  authenticateAdminStart(
                      [NewReq("auth", ip, token, EmailMissing, "") EXCEPT !.checkedAt = now],
                      now)]
    /\ UNCHANGED <<now, ticks, users, upserts, hits, cookie, issued, log, opened, logoutRun, env, boot, refused, data, loggedOut>>

\* storage.getUser resolves.
AuthLookup(s) ==
    /\ reqs[s].kind \in {"auth", "route"}
    /\ reqs[s].pc = "getUser"
    /\ LET r == authenticateAdminLookup(reqs[s], getUser(users, reqs[s].decoded.userId))
       IN  /\ reqs' = [reqs EXCEPT ![s] = r]
           /\ refused' = IF r.status = 403 /\ reqs[s].token \in {i.token : i \in issued}
                         THEN refused \cup {[token |-> reqs[s].token, event |-> r.logged]}
                         ELSE refused
    /\ UNCHANGED <<now, ticks, users, upserts, hits, cookie, issued, log, opened, logoutRun, env, boot, data, loggedOut>>

\* storage.getUser rejects: the store fails.
AuthLookupThrows(s) ==
    /\ reqs[s].kind \in {"auth", "route"}
    /\ reqs[s].pc = "getUser"
    /\ reqs' = [reqs EXCEPT ![s] =
                  authenticateAdminCatch([reqs[s] EXCEPT !.lookups = @ + 1,
                                                         !.threw = "getUser"])]
    /\ UNCHANGED <<now, ticks, users, upserts, hits, cookie, issued, log, opened, logoutRun, env, boot, refused, data, loggedOut>>

\* A request to a content route arrives: the middleware the route is
\* registered with runs, then the handler up to its first await.
RouteRequest(s, ip, token, route, valid, status, views, session) ==
    /\ Free(s)
    /\ LET r == [NewReq("route", ip, token, EmailMissing, "")
                   EXCEPT !.checkedAt = now, !.route = route, !.valid = valid,
                          !.bodyStatus = status, !.bodyViews = views]
       IN  reqs' = [reqs EXCEPT ![s] =
                      CASE route.guard = "authenticateAdmin" -> authenticateAdminStart(r, now)
                        [] route.guard = "isAuthenticated" -> isAuthenticated(r, session)
                        [] OTHER -> routeStart(r)]
    /\ UNCHANGED <<now, ticks, users, upserts, hits, cookie, issued, log, opened, logoutRun, env, boot, refused, loggedOut, data>>

\* The rows the tables hold.
PresentRows(d) == Cardinality({t \in Tables : d[t].present})

\* The handler's first await settles: a storage call, or the call of the
\* content generator.  The one row a table has here is the one the request
\* names; a create finds its place free.
RouteStore(s, throws) ==
    /\ reqs[s].kind = "route"
    /\ reqs[s].pc = "store"
    /\ LET t == reqs[s].route.table
           op == reqs[s].route.op
           row == IF t \in Tables THEN data[t] ELSE NoRow
       IN  /\ op = "create" => (~row.present /\ PresentRows(data) < MaxRows)
           /\ (op = "update" /\ row.present) => row.rev < MaxRev
           /\ reqs' = [reqs EXCEPT ![s] = routeStore(reqs[s], row, throws)]
           /\ data' = IF t \in Tables /\ routeWrites(reqs[s]) /\ ~throws
                      THEN [data EXCEPT ![t] = storageWrite(row, op, t, reqs[s].bodyStatus,
                                                            reqs[s].bodyViews)]
                      ELSE data
    /\ UNCHANGED <<now, ticks, users, upserts, hits, cookie, issued, log, opened, logoutRun, env, boot, refused, loggedOut>>

\* The handler's second await settles: storage.incrementViewCount, or the
\* recommendation generator.
RouteStore2(s, throws) ==
    /\ reqs[s].kind = "route"
    /\ reqs[s].pc = "store2"
    /\ LET t == reqs[s].route.table
           op == reqs[s].route.op
       IN  /\ (op = "view" /\ data[t].present) => data[t].viewCount < MaxViews
           /\ reqs' = [reqs EXCEPT ![s] = routeStore2(reqs[s], throws)]
           /\ data' = IF op = "view" /\ ~throws
                      THEN [data EXCEPT ![t] = storageWrite(data[t], op, t, "", -1)]
                      ELSE data
    /\ UNCHANGED <<now, ticks, users, upserts, hits, cookie, issued, log, opened, logoutRun, env, boot, refused, loggedOut>>

\* storage.updateOrderStatus is called; no route calls it, the rest of the
\* application can.
UpdateOrderStatus(status) ==
    /\ data["orders"].present
    /\ data["orders"].rev < MaxRev
    /\ data' = [data EXCEPT !["orders"] = updateOrderStatus(@, status)]
    /\ UNCHANGED <<now, ticks, users, upserts, hits, reqs, cookie, issued, log, opened, logoutRun, env, boot, refused, loggedOut>>

\* POST /api/auth/logout
PostLogout(s, ip, token) ==
    /\ Free(s)
    /\ reqs' = [reqs EXCEPT ![s] = adminLogout(NewReq("logout", ip, token, EmailMissing, ""))]
    /\ users' = adminLogoutStore(users, token)
    /\ UNCHANGED <<now, ticks, upserts, hits, cookie, issued, log, opened, logoutRun, env, boot, refused, data, loggedOut>>

\* The response's 'finish' event: the limiter takes the hit of a successful
\* login back, the client receives the response and applies its Set-Cookie.
Finish(s) ==
    /\ reqs[s].pc = "finish"
    /\ hits' = IF reqs[s].kind = "login" /\ requestWasSuccessful(reqs[s])
               THEN [hits EXCEPT ![reqs[s].ip] = rateLimitDecrement(@)]
               ELSE hits
    /\ cookie' = CASE reqs[s].setCookie = "set" -> reqs[s].newToken
                   [] reqs[s].setCookie = "clear" -> NoToken
                   [] OTHER -> cookie
    /\ logoutRun' = IF reqs[s].kind # "logout" THEN 0
                     ELSE IF logoutRun < MaxRun THEN logoutRun + 1 ELSE logoutRun
    /\ loggedOut' = IF reqs[s].kind = "logout" /\ reqs[s].token # NoToken
                     THEN loggedOut \cup {reqs[s].token} ELSE loggedOut
    /\ reqs' = [reqs EXCEPT ![s] = IdleReq]
    /\ UNCHANGED <<now, ticks, users, upserts, issued, log, opened, env, boot, refused, data>>

\* A write to the users table by the rest of the application.
UpsertUser(userData) ==
    /\ upserts < MaxUpserts
    /\ ~upsertThrows(users, userData)
    /\ users[userData.id] # userData
    /\ users' = upsertUser(users, userData)
    /\ upserts' = upserts + 1
    /\ UNCHANGED <<now, ticks, hits, reqs, cookie, issued, log, opened, logoutRun, env, boot, refused, data, loggedOut>>

\* A row of the users table is deleted; nothing in the server does it, the
\* table's owner can.
RemoveUser(id) ==
    /\ upserts < MaxUpserts
    /\ id \in DOMAIN users
    /\ users[id] # NoUser
    /\ users' = [users EXCEPT ![id] = NoUser]
    /\ upserts' = upserts + 1
    /\ UNCHANGED <<now, ticks, hits, reqs, cookie, issued, log, opened, logoutRun, env, boot, refused, data, loggedOut>>

\* generateToken called on an account, as adminLogin calls it.
IssueToken(user) ==
    /\ Cardinality(issued) < MaxIssued
    /\ issued' = issued \cup {[token |-> generateToken(user, now), row |-> user, at |-> now]}
    /\ UNCHANGED <<now, ticks, users, upserts, hits, reqs, cookie, log, opened, logoutRun, env, boot, refused, data, loggedOut>>

\* verifyToken called on a token, as authenticateAdmin calls it.
VerifyToken(s, token) ==
    /\ Free(s)
    /\ Quiet
    /\ reqs' = [reqs EXCEPT ![s] =
                  [NewReq("verify", "none", token, EmailMissing, "")
                     EXCEPT !.pc = "finish", !.checkedAt = now,
                            !.decoded = verifyToken(token, now)]]
    /\ UNCHANGED <<now, ticks, users, upserts, hits, cookie, issued, log, opened, logoutRun, env, boot, refused, data, loggedOut>>

\* server/routes.ts imports server/adminAuth.ts.
LoadAuthModule ==
    /\ boot.module = "unloaded"
    /\ boot' = loadAuthModule(boot, env)
    /\ UNCHANGED <<now, ticks, users, upserts, hits, reqs, cookie, issued, log, opened, logoutRun, env, refused, data, loggedOut>>

\* initializeAdminUser is called.
BootStart ==
    /\ boot.module = "loaded"
    /\ boot.pc \in {"idle", "done"}
    /\ boot.runs < MaxBoots
    /\ Quiet
    /\ boot' = initializeAdminUserStart(boot, env, users)
    /\ UNCHANGED <<now, ticks, users, upserts, hits, reqs, cookie, issued, log, opened, logoutRun, env, refused, data, loggedOut>>

\* storage.getUserByEmail settles: it resolves, or the store fails.
BootLookup(throws) ==
    /\ boot.pc = "getUserByEmail"
    /\ boot' = initializeAdminUserLookup(boot, env,
                                         getUserByEmail(users, boot.adminEmail), throws)
    /\ UNCHANGED <<now, ticks, users, upserts, hits, reqs, cookie, issued, log, opened, logoutRun, env, refused, data, loggedOut>>

\* bcrypt.hash settles.
BootHash(throws) ==
    /\ boot.pc = "hashPassword"
    /\ boot' = initializeAdminUserHash(boot, env, throws, now)
    /\ UNCHANGED <<now, ticks, users, upserts, hits, reqs, cookie, issued, log, opened, logoutRun, env, refused, data, loggedOut>>

\* storage.upsertUser settles: the row is written, or the store fails.
BootUpsert(throws) ==
    /\ boot.pc = "upsertUser"
    /\ LET row == boot.row
           failed == throws \/ upsertThrows(users, row)
       IN  /\ boot' = initializeAdminUserUpsert(boot, env, failed)
           /\ users' = IF failed THEN users ELSE upsertUser(users, row)
    /\ UNCHANGED <<now, ticks, upserts, hits, reqs, cookie, issued, log, opened, logoutRun, env, refused, data, loggedOut>>

\* Time passes.
Tick(d) ==
    /\ ticks < MaxTicks
    /\ now' = now + d
    /\ ticks' = ticks + 1
    /\ UNCHANGED <<users, upserts, hits, reqs, cookie, issued, log, opened, logoutRun, env, boot, refused, data, loggedOut>>

\* ---------------------------------------------------------- specifications
\* The store after the bootstrap: the administrator u1 and no one else.
BootRow == [id |-> "u1", email |-> EmailA, role |-> "admin",
            passwordHash |-> hashPassword("pw1")]

Init ==
    /\ now = 0
    /\ ticks = 0
    /\ users = [id \in Ids |-> IF id = "u1" THEN BootRow ELSE NoUser]
    /\ upserts = 0
    /\ hits = [a \in Addrs |-> NoClient]
    /\ reqs = [s \in Slots |-> IdleReq]
    /\ cookie = NoToken
    /\ issued = {}
    /\ log = [a \in Addrs |-> << >>]
    /\ opened = [a \in Addrs |-> 0]
    /\ logoutRun = 0
    /\ env = [NODE_ENV |-> "development", JWT_SECRET |-> Env(ServerSecret),
              ADMIN_EMAIL |-> Env(EmailA), ADMIN_PASSWORD |-> Env("pw1")]
    /\ boot = [NoBoot EXCEPT !.module = "loaded", !.pc = "done", !.outcome = "resolved",
                             !.runs = 1, !.adminEmail = EmailA]
    /\ refused = {}
    /\ data = [t \in Tables |-> NoRow]
    /\ loggedOut = {}

AuthDeltas == {HalfSec, DayMs - HalfSec}
RateDeltas == {HalfSec, WindowMs - HalfSec}

AuthRows ==
    {u \in UserRows : u.id = "u1" /\ u.passwordHash \in {NoHash, hashPassword("pw1")}}

\* Spec: the administrator logs in and uses the admin-only route while the
\* administrator's row is written to and time passes.
Next ==
    \/ \E s \in Slots, p \in Passwords :
          Quiet /\ Len(log["ip1"]) < AuthLogins /\ PostLogin(s, "ip1", EmailA, p)
    \/ \E s \in Slots : LoginLookup(s)
    \/ \E s \in Slots : LoginVerify(s)
    \/ \E s \in Slots, t \in Presentable : Quiet /\ GetAdmin(s, "ip1", t)
    \/ \E s \in Slots : AuthLookup(s)
    \/ \E s \in Slots : Finish(s)
    \/ \E u \in AuthRows : UpsertUser(u)
    \/ \E d \in AuthDeltas : Tick(d)

Spec == Init /\ [][Next]_vars

\* SpecLogin: logins of every kind of input, one after another, while the
\* store is written to.
LoginInputs == 2
NextLogin ==
    \/ \E s \in Slots, e \in RequestEmails, p \in RequestPasswords :
          Quiet /\ Len(log["ip1"]) < LoginInputs /\ PostLogin(s, "ip1", e, p)
    \/ \E s \in Slots : LoginLookup(s)
    \/ \E s \in Slots : LoginVerify(s)
    \/ \E s \in Slots : Finish(s)
    \/ \E u \in UserRows : UpsertUser(u)

SpecLogin == Init /\ [][NextLogin]_vars

\* SpecLogout: login, logout and the admin-only route.
NextLogout ==
    \/ \E s \in Slots, p \in Passwords :
          Len(log["ip1"]) < AuthLogins /\ PostLogin(s, "ip1", EmailA, p)
    \/ \E s \in Slots : LoginLookup(s)
    \/ \E s \in Slots : LoginVerify(s)
    \/ \E s \in Slots, t \in Presentable : GetAdmin(s, "ip1", t)
    \/ \E s \in Slots : AuthLookup(s)
    \/ \E s \in Slots, t \in {NoToken, cookie, GarbageToken} : PostLogout(s, "ip1", t)
    \/ \E s \in Slots : Finish(s)

SpecLogout == Init /\ [][NextLogout]_vars

\* SpecRate: one address sends logins one after another, the store left as it is.
NextRate ==
    \/ \E s \in Slots, p \in Passwords : Quiet /\ PostLogin(s, "ip1", EmailA, p)
    \/ \E s \in Slots : LoginLookup(s)
    \/ \E s \in Slots : LoginVerify(s)
    \/ \E s \in Slots : Finish(s)
    \/ \E d \in RateDeltas : Tick(d)

SpecRate == Init /\ [][NextRate]_vars

\* SpecToken: generateToken and verifyToken applied to accounts and times.
AdminUsers == [id : Ids, email : StoredEmails, role : Roles]

NextToken ==
    \/ \E u \in AdminUsers : IssueToken(u)
    \/ \E s \in Slots, t \in {i.token : i \in issued} \cup CraftedTokens : VerifyToken(s, t)
    \/ \E s \in Slots : Finish(s)
    \/ \E d \in AuthDeltas : Tick(d)

SpecToken == Init /\ [][NextToken]_vars

\* SpecBoot: the process starts in any environment over any store content:
\* the auth module is evaluated, initializeAdminUser runs while the store or
\* the hasher may fail, and then logins are served.
BootEmails == {DefaultAdminEmail, EmailA}
BootPasswords == {DefaultAdminPassword, "pw1"}
BootRows ==
    [id : Ids, email : BootEmails, role : Roles,
     passwordHash : {NoHash} \cup {hashPassword(p) : p \in BootPasswords}]
BootStores ==
    {st \in [Ids -> BootRows \cup {NoUser}] :
        /\ \A id \in Ids : st[id] # NoUser => st[id].id = id
        /\ \A i, j \in Ids :
              (i # j /\ st[i] # NoUser /\ st[j] # NoUser) => st[i].email # st[j].email}
BootEnvs ==
    [NODE_ENV : {"production", "development"},
     JWT_SECRET : {Unset, Env(""), Env(ServerSecret)},
     ADMIN_EMAIL : {Unset, Env(EmailA)},
     ADMIN_PASSWORD : {Unset, Env(""), Env("pw1")}]

InitBoot ==
    /\ now = 0
    /\ ticks = 0
    /\ users \in BootStores
    /\ upserts = 0
    /\ hits = [a \in Addrs |-> NoClient]
    /\ reqs = [s \in Slots |-> IdleReq]
    /\ cookie = NoToken
    /\ issued = {}
    /\ log = [a \in Addrs |-> << >>]
    /\ opened = [a \in Addrs |-> 0]
    /\ logoutRun = 0
    /\ env \in BootEnvs
    /\ boot = NoBoot
    /\ refused = {}
    /\ data = [t \in Tables |-> NoRow]
    /\ loggedOut = {}

NextBoot ==
    \/ LoadAuthModule
    \/ BootStart
    \/ \E throws \in BOOLEAN : BootLookup(throws)
    \/ \E throws \in BOOLEAN : BootHash(throws)
    \/ \E throws \in BOOLEAN : BootUpsert(throws)
    \/ \E d \in {HalfSec} : boot.pc \in {"hashPassword", "upsertUser"} /\ Tick(d)
    \/ \E s \in Slots, e \in BootEmails, p \in BootPasswords \cup {"pw2", ""} :
          /\ Quiet /\ boot.module = "loaded" /\ boot.pc = "done"
          /\ Len(log["ip1"]) < BootLogins
          /\ PostLogin(s, "ip1", e, p)
    \/ \E s \in Slots : LoginLookup(s)
    \/ \E s \in Slots : LoginVerify(s)
    \/ \E s \in Slots : Finish(s)

SpecBoot == InitBoot /\ [][NextBoot]_vars

\* SpecOutcome: one address sends logins of every outcome one after another
\* while the store or the verifier may fail and the administrator's row is
\* written to.
OutcomeEmails == {EmailA, EmailNoDot}
NextOutcome ==
    \/ \E s \in Slots, e \in OutcomeEmails, p \in Passwords :
          Quiet /\ Len(log["ip1"]) < OutcomeLogins /\ PostLogin(s, "ip1", e, p)
    \/ \E s \in Slots : LoginLookup(s)
    \/ \E s \in Slots : LoginLookupThrows(s)
    \/ \E s \in Slots : LoginVerify(s)
    \/ \E s \in Slots : LoginVerifyThrows(s)
    \/ \E s \in Slots : Finish(s)
    \/ \E u \in AuthRows : Quiet /\ upserts < OutcomeUpserts /\ UpsertUser(u)

SpecOutcome == Init /\ [][NextOutcome]_vars

\* SpecRevoke: the administrator logs in, uses the admin-only route with the
\* cookie or a retained copy of it and logs out, one request after another,
\* while the administrator's row is rewritten or deleted and time passes.
RevokeRows == {u \in AuthRows : u.passwordHash # NoHash}
NextRevoke ==
    \/ \E s \in Slots :
          Quiet /\ Len(log["ip1"]) < AuthLogins /\ PostLogin(s, "ip1", EmailA, "pw1")
    \/ \E s \in Slots : LoginLookup(s)
    \/ \E s \in Slots : LoginVerify(s)
    \/ \E s \in Slots, t \in {cookie} \cup {i.token : i \in issued} :
          Quiet /\ GetAdmin(s, "ip1", t)
    \/ \E s \in Slots : AuthLookup(s)
    \/ \E s \in Slots : Quiet /\ PostLogout(s, "ip1", cookie)
    \/ \E s \in Slots : Finish(s)
    \/ \E u \in RevokeRows : UpsertUser(u)
    \/ \E id \in Ids : RemoveUser(id)
    \/ \E d \in AuthDeltas : Tick(d)

SpecRevoke == Init /\ [][NextRevoke]_vars

\* SpecRace: one address sends logins in parallel while time passes: a login
\* arrives while the response of a successful one is still being sent.
RaceDeltas == {WindowMs}
NextRace ==
    \/ \E s \in Slots, p \in Passwords :
          /\ \A x \in Slots :
                reqs[x].pc = "idle" \/ (reqs[x].pc = "finish" /\ reqs[x].status = 200)
          /\ PostLogin(s, "ip1", EmailA, p)
    \/ \E s \in Slots : LoginLookup(s)
    \/ \E s \in Slots : LoginVerify(s)
    \/ \E s \in Slots : Finish(s)
    \/ \E d \in RaceDeltas : Tick(d)

SpecRace == Init /\ [][NextRace]_vars

\* SpecFailure: logins and requests to the admin-only route, one after
\* another, while the store and the password verifier may fail.
NextFailure ==
    \/ \E s \in Slots, e \in {EmailA, EmailB}, p \in Passwords :
          Quiet /\ Len(log["ip1"]) < LoginInputs /\ PostLogin(s, "ip1", e, p)
    \/ \E s \in Slots : LoginLookup(s)
    \/ \E s \in Slots : LoginLookupThrows(s)
    \/ \E s \in Slots : LoginVerify(s)
    \/ \E s \in Slots : LoginVerifyThrows(s)
    \/ \E s \in Slots, t \in {cookie} \cup {i.token : i \in issued} :
          Quiet /\ GetAdmin(s, "ip1", t)
    \/ \E s \in Slots : AuthLookup(s)
    \/ \E s \in Slots : AuthLookupThrows(s)
    \/ \E s \in Slots : Finish(s)
    \/ \E d \in AuthDeltas : Tick(d)

SpecFailure == Init /\ [][NextFailure]_vars

\* SpecReject: requests to the admin-only route in parallel, with every kind
\* of token, while the administrator's row is written to and deleted.
NextReject ==
    \/ \E s \in Slots :
          Quiet /\ Len(log["ip1"]) < AuthLogins /\ PostLogin(s, "ip1", EmailA, "pw1")
    \/ \E s \in Slots : LoginLookup(s)
    \/ \E s \in Slots : LoginVerify(s)
    \/ \E s \in Slots, t \in Presentable :
          /\ \A x \in Slots : reqs[x].kind # "login"
          /\ GetAdmin(s, "ip1", t)
    \/ \E s \in Slots : AuthLookup(s)
    \/ \E s \in Slots : Finish(s)
    \/ \E u \in RevokeRows : UpsertUser(u)
    \/ \E id \in Ids : RemoveUser(id)

SpecReject == Init /\ [][NextReject]_vars

\* SpecRoutes: the administrator logs in; requests to the routes arrive one
\* after another, with no token, the cookie or a token that is none, with or
\* without a session, with bodies that pass their schema or do not, while
\* the store may fail and the administrator's role is changed.  A request
\* for a blog post may arrive while a view waits for incrementViewCount.
RouteRows == {u \in RevokeRows : u.email = EmailA}

\* The status a request body carries where the handler writes one, "" for
\* a body without one; the public order route takes none from the body and
\* sets 'pending'.
BodyStatuses(route) ==
    CASE route.path = "/api/orders" -> {"pending"}
      [] route.op \in {"create", "update"} -> RowStatuses(route.table) \cup {""}
      [] route.op = "status" -> RowStatuses(route.table)
      [] OTHER -> {""}

\* The viewCount a request body carries, -1 for a body without one:
\* insertBlogPostSchema keeps it.
BodyViews(route) ==
    IF route.op \in {"create", "update"} /\ route.table = "blogPosts"
    THEN -1 .. MaxViews ELSE {-1}

\* What of a request its route looks at: the cookie where authenticateAdmin
\* runs, the session where isAuthenticated runs, the validity of the body or
\* of the id where the handler tests it.
RouteTokens(route) ==
    IF route.guard = "authenticateAdmin" THEN {NoToken, cookie, GarbageToken} ELSE {NoToken}
RouteSessions(route) ==
    IF route.guard = "isAuthenticated" THEN BOOLEAN ELSE {FALSE}
RouteBodies(route) ==
    IF Validates(route) THEN BOOLEAN ELSE {TRUE}

\* No request is in flight but for a view between its two awaits.
ViewWaits ==
    \A x \in Slots :
        reqs[x].pc = "idle" \/ (reqs[x].pc = "store2" /\ reqs[x].route.op = "view")

NextRoutes ==
    \/ \E s \in Slots :
          Quiet /\ Len(log["ip1"]) < AuthLogins /\ PostLogin(s, "ip1", EmailA, "pw1")
    \/ \E s \in Slots : LoginLookup(s)
    \/ \E s \in Slots : LoginVerify(s)
    \/ /\ ViewWaits
       /\ \E s \in Slots, route \in Routes :
             /\ Free(s)
             /\ Quiet \/ (route.table = "blogPosts" /\ route.op \in {"update", "delete", "view"})
             /\ \E t \in RouteTokens(route), valid \in RouteBodies(route),
                   session \in RouteSessions(route), status \in BodyStatuses(route),
                   views \in BodyViews(route) :
                   RouteRequest(s, "ip1", t, route, valid, status, views, session)
    \/ \E s \in Slots : AuthLookup(s)
    \/ \E s \in Slots, throws \in BOOLEAN : RouteStore(s, throws)
    \/ \E s \in Slots, throws \in BOOLEAN : RouteStore2(s, throws)
    \/ \E s \in Slots : Finish(s)
    \/ \E u \in RouteRows : UpsertUser(u)
    \/ \E status \in RowStatuses("orders") : UpdateOrderStatus(status)

SpecRoutes == Init /\ [][NextRoutes]_vars

\* ================================================================ claims
IssuedTokens == {i.token : i \in issued}

\* The step in which storage.getUser resolves for the request in slot s.
LookupStep(s) ==
    reqs[s].kind = "auth" /\ reqs[s].pc = "getUser" /\ reqs'[s].pc # "getUser"

\* C1: revocation.  When the store lookup of a request that presents a token
\* issued by a login finds the token's account with a role other than 'admin',
\* the request is answered 403, the admin_token cookie is cleared and the
\* route's handler is not invoked.
C1_Revocation ==
    [][\A s \in Slots :
         ( /\ LookupStep(s)
           /\ reqs[s].token \in IssuedTokens
           /\ getUser(users, reqs[s].token.userId) # NoUser
           /\ getUser(users, reqs[s].token.userId).role # "admin" )
         => ( /\ reqs'[s].pc = "finish"
              /\ reqs'[s].status = 403
              /\ reqs'[s].setCookie = "clear"
              /\ ~reqs'[s].nextCalled
              /\ reqs'[s].adminUser = NoPayload )]_vars

\* C1 happens: a request with an issued, still valid token was refused because
\* the account's role is no longer 'admin'.
C1_Witness ==
    \E s \in Slots :
        /\ reqs[s].kind = "auth" /\ reqs[s].pc = "finish"
        /\ reqs[s].token \in IssuedTokens
        /\ ~jwtVerifyThrows(reqs[s].token, JWT_SECRET, reqs[s].checkedAt)
        /\ users[reqs[s].token.userId] # NoUser
        /\ users[reqs[s].token.userId].role = "user"
        /\ reqs[s].status = 403 /\ reqs[s].setCookie = "clear"

\* C2: safety of PROCEED.  authenticateAdmin calls next() and attaches the
\* identity only in a step in which the account of the token's userId is in
\* the store with role 'admin', for a token that verified against the server
\* secret, was not expired when checked and carries type and role 'admin'; a
\* request that is not in such a step never has next() called.
ProceedAllowed(s) ==
    LET t == reqs[s].token IN
    /\ t.form = "jwt"
    /\ t.key = JWT_SECRET
    /\ reqs[s].checkedAt \div 1000 < t.exp
    /\ t.type = "admin"
    /\ t.role = "admin"
    /\ getUser(users, t.userId) # NoUser
    /\ getUser(users, t.userId).role = "admin"

C2_ProceedSafety ==
    [][\A s \in Slots :
         /\ ( /\ reqs'[s].kind = "auth"
              /\ (reqs'[s].nextCalled \/ reqs'[s].adminUser # NoPayload)
              /\ ~(reqs[s].kind = "auth" /\ reqs[s].nextCalled) )
            => (LookupStep(s) /\ ProceedAllowed(s))
         /\ (LookupStep(s) /\ ~ProceedAllowed(s)) => ~reqs'[s].nextCalled]_vars

\* C2 happens: the middleware let a request through.
C2_Witness ==
    \E s \in Slots :
        /\ reqs[s].kind = "auth" /\ reqs[s].nextCalled
        /\ reqs[s].adminUser = Payload(reqs[s].token)
        /\ reqs[s].status = 200

\* C3: a login of an admin account followed by a request that carries the
\* returned token, made before the token's expiry and with the account's row
\* as it was at the login, passes the middleware and reaches the handler.
C3_LoginThenAccess ==
    /\ [](\A s \in Slots : \A i \in issued :
            ( /\ reqs[s].kind = "auth"
              /\ reqs[s].token = i.token
              /\ reqs[s].checkedAt \div 1000 < i.token.exp )
            => reqs[s].pc = "getUser" \/ reqs[s].lookups = 1)
    /\ [][\A s \in Slots : \A i \in issued :
            ( /\ LookupStep(s)
              /\ reqs[s].token = i.token
              /\ getUser(users, i.row.id) = i.row )
            => ( /\ reqs'[s].pc = "finish"
                 /\ reqs'[s].nextCalled
                 /\ reqs'[s].status = 200
                 /\ reqs'[s].body = [id |-> i.row.id, email |-> i.row.email,
                                     role |-> i.row.role] )]_vars

\* C3 happens: the cookie a login returned was presented and the handler ran.
C3_Witness ==
    \E s \in Slots : \E i \in issued :
        /\ reqs[s].kind = "auth" /\ reqs[s].pc = "finish"
        /\ reqs[s].token = i.token /\ reqs[s].token = cookie
        /\ users[i.row.id] = i.row
        /\ reqs[s].nextCalled /\ reqs[s].status = 200

\* The step in which storage.getUserByEmail resolves for the login in slot s.
LoginLookupStep(s) ==
    reqs[s].kind = "login" /\ reqs[s].pc = "getUserByEmail" /\ reqs'[s].pc # "getUserByEmail"

\* The account a login names, as the store has it.
Named(s) == getUserByEmail(users, reqs[s].email)

\* A login the handler has refused, with no cookie and no token.
Refused401(r) ==
    /\ r.pc = "finish"
    /\ r.status = 401
    /\ r.setCookie = "none"
    /\ r.newToken = NoToken

\* C4: a login that names an account whose role is not 'admin' is answered
\* 401 whatever password it supplies, whether it is the account's password or
\* not and whether the account has a hash or not; no cookie is set and no
\* token is issued.
C4_NonAdminLogin ==
    /\ [][\A s \in Slots :
            (LoginLookupStep(s) /\ Named(s) # NoUser /\ Named(s).role # "admin")
            => (Refused401(reqs'[s]) /\ issued' = issued)]_vars
    /\ [](\A s \in Slots :
            (reqs[s].kind = "login" /\ reqs[s].user # NoUser /\ reqs[s].user.role # "admin")
            => Refused401(reqs[s]))

\* C4 happens: a non-admin account with a hash, named with its own password,
\* was refused.
C4_Witness ==
    \E s \in Slots :
        /\ reqs[s].kind = "login" /\ reqs[s].pc = "finish"
        /\ reqs[s].user # NoUser /\ reqs[s].user.role = "user"
        /\ reqs[s].user.passwordHash = hashPassword(reqs[s].password)
        /\ reqs[s].status = 401 /\ reqs[s].setCookie = "none"

\* C5: a login that names an account whose passwordHash is unset is answered
\* 401 for every supplied password, also when the account's role is 'admin',
\* without the password verifier being called and without a cookie.
C5_MissingHashLogin ==
    /\ [][\A s \in Slots :
            (LoginLookupStep(s) /\ Named(s) # NoUser /\ Named(s).passwordHash = NoHash)
            => (Refused401(reqs'[s]) /\ reqs'[s].verifierCalls = 0)]_vars
    /\ [](\A s \in Slots :
            (reqs[s].kind = "login" /\ reqs[s].user # NoUser
               /\ reqs[s].user.passwordHash = NoHash)
            => (Refused401(reqs[s]) /\ reqs[s].verifierCalls = 0))

\* C5 happens: an admin account without a hash was refused.
C5_Witness ==
    \E s \in Slots :
        /\ reqs[s].kind = "login" /\ reqs[s].pc = "finish"
        /\ reqs[s].user # NoUser /\ reqs[s].user.role = "admin"
        /\ reqs[s].user.passwordHash = NoHash
        /\ reqs[s].status = 401 /\ reqs[s].verifierCalls = 0

\* C6: enumeration resistance.  Any two well-formed logins that failed, each
\* for any of the four reasons (unknown e-mail, non-admin account, missing
\* hash, wrong password), got the same response: status 401, the same body
\* and no cookie.
FailureReasons ==
    {"LOGIN_FAILED:user_not_found", "LOGIN_FAILED:not_admin",
     "LOGIN_FAILED:missing_password_hash", "LOGIN_FAILED:invalid_password"}

HttpResponse(e) == [status |-> e.status, body |-> e.body, setCookie |-> e.setCookie]

C6_UniformFailure ==
    \A a \in Addrs : \A i \in 1..Len(log[a]) : \A j \in 1..Len(log[a]) :
        (log[a][i].logged \in FailureReasons /\ log[a][j].logged \in FailureReasons)
        => ( /\ HttpResponse(log[a][i]) = HttpResponse(log[a][j])
             /\ log[a][i].status = 401 )

\* C6 happens: two logins failed for different reasons.
C6_Witness ==
    \E a \in Addrs : \E i \in 1..Len(log[a]) : \E j \in 1..Len(log[a]) :
        /\ log[a][i].logged = "LOGIN_FAILED:user_not_found"
        /\ log[a][j].logged = "LOGIN_FAILED:invalid_password"
        /\ log[a][i].status = 401 /\ log[a][j].status = 401

\* The claims a token embeds and the claims of a payload.
Embedded(row) == [userId |-> row.id, email |-> row.email, role |-> row.role, type |-> "admin"]
ClaimsOf(p) == [userId |-> p.userId, email |-> p.email, role |-> p.role, type |-> p.type]

\* The original statement of C7: verifyToken returns the embedded claims at
\* every time less than 24 hours after the issue and invalid from then on.
C7_FullDay ==
    \A s \in Slots : \A i \in issued :
        (reqs[s].kind = "verify" /\ reqs[s].token = i.token)
        => IF reqs[s].checkedAt < i.at + DayMs
           THEN reqs[s].decoded # NoPayload /\ ClaimsOf(reqs[s].decoded) = Embedded(i.row)
           ELSE reqs[s].decoded = NoPayload

\* C7, amended: the token's times are whole seconds.  verifyToken returns the
\* embedded claims while the clock's second is less than the second of the
\* issue plus 86400, and invalid from that second on: the claims are returned
\* up to 24 hours less one second after the issue, never at or after 24 hours.
C7_RoundTrip ==
    \A s \in Slots : \A i \in issued :
        (reqs[s].kind = "verify" /\ reqs[s].token = i.token)
        => /\ IF reqs[s].checkedAt \div 1000 < (i.at \div 1000) + JwtExpiresSec
              THEN /\ reqs[s].decoded # NoPayload
                   /\ ClaimsOf(reqs[s].decoded) = Embedded(i.row)
              ELSE reqs[s].decoded = NoPayload
           /\ reqs[s].checkedAt + 1000 <= i.at + DayMs => reqs[s].decoded # NoPayload
           /\ reqs[s].checkedAt >= i.at + DayMs => reqs[s].decoded = NoPayload

\* C7 happens: a token verified in the last second of its lifetime.
C7_Witness ==
    \E s \in Slots : \E i \in issued :
        /\ reqs[s].kind = "verify" /\ reqs[s].token = i.token
        /\ reqs[s].checkedAt + 1000 > i.at + DayMs - 1000
        /\ reqs[s].decoded # NoPayload
        /\ ClaimsOf(reqs[s].decoded) = Embedded(i.row)

\* C8: logout is unconditional and idempotent.  Every logout is answered 200
\* and clears the admin_token cookie, whatever token it presents; after each
\* logout response of a row of them the client's cookie is cleared.
C8_LogoutIdempotent ==
    /\ \A s \in Slots :
          reqs[s].kind = "logout"
          => ( /\ reqs[s].pc = "finish"
               /\ reqs[s].status = 200
               /\ reqs[s].body = [message |-> "Logout successful"]
               /\ reqs[s].setCookie = "clear" )
    /\ logoutRun > 0 => cookie = NoToken

\* C8 happens: after a login, two logouts in a row were answered.
C8_Witness ==
    /\ logoutRun = 2
    /\ issued # {}
    /\ cookie = NoToken
    /\ \E s \in Slots : reqs[s].kind = "logout" /\ reqs[s].token = NoToken
                        /\ reqs[s].status = 200

\* A login the handler answered with 401.
Failed(e) == e.status = 401 /\ e.solo

\* C9: from an empty window, five failed logins of one address, one after
\* another within 15 minutes, are each passed to the login handler, and the
\* sixth login in that window is answered 429 with code RATE_LIMITED without
\* the handler, a store lookup or a password check.
C9_Threshold ==
    /\ \A a \in Addrs : \A j \in 1..Len(log[a]) :
          ( /\ j <= MaxHits
            /\ log[a][j].inWindow
            /\ \A i \in 1..(j - 1) : Failed(log[a][i]) )
          => (log[a][j].admitted /\ log[a][j].status # 429)
    /\ \A a \in Addrs :
          ( /\ Len(log[a]) > MaxHits
            /\ log[a][MaxHits + 1].inWindow
            /\ \A i \in 1..MaxHits : Failed(log[a][i]) )
          => ( /\ log[a][MaxHits + 1].status = 429
               /\ log[a][MaxHits + 1].body = RateLimitBody
               /\ ~log[a][MaxHits + 1].admitted )
    /\ \A s \in Slots :
          reqs[s].status = 429
          => ( /\ ~reqs[s].nextCalled
               /\ reqs[s].lookups = 0
               /\ reqs[s].verifierCalls = 0
               /\ reqs[s].body.error = "RATE_LIMITED" )

\* C9 happens: five failed logins, and the sixth was refused by the limiter.
C9_Witness ==
    \E a \in Addrs :
        /\ Len(log[a]) > MaxHits
        /\ \A i \in 1..MaxHits : Failed(log[a][i]) /\ log[a][i].admitted
        /\ log[a][MaxHits + 1].inWindow
        /\ log[a][MaxHits + 1].status = 429

\* Logins 1..k of address a failed, login k+1 succeeded, and the logins from
\* k+2 up to j-1 failed, all of them in the window in which login j arrives.
AfterSuccess(a, k, j) ==
    /\ j <= Len(log[a])
    /\ j > k + 1
    /\ log[a][j].inWindow /\ log[a][j].solo
    /\ \A i \in 1..k : Failed(log[a][i])
    /\ log[a][k + 1].status = 200 /\ log[a][k + 1].solo
    /\ \A i \in (k + 2)..(j - 1) : Failed(log[a][i])

\* The original statement of C10: after k failed logins and a successful one,
\* five more failed logins are attempted before any login is answered 429.
C10_ResetBySuccess ==
    \A a \in Addrs : \A k \in 1..(MaxHits - 1) : \A j \in 1..Len(log[a]) :
        (AfterSuccess(a, k, j) /\ j <= k + 1 + MaxHits)
        => (log[a][j].admitted /\ log[a][j].status # 429)

\* C10, amended: a successful login is not counted and resets nothing.  After
\* k failed logins and a successful one in the same window, 5 - k more failed
\* logins are attempted and the next login is answered 429.
C10_SuccessNotCounted ==
    \A a \in Addrs : \A k \in 1..(MaxHits - 1) : \A j \in 1..Len(log[a]) :
        AfterSuccess(a, k, j)
        => IF j - (k + 1) <= MaxHits - k
           THEN log[a][j].admitted /\ log[a][j].status # 429
           ELSE log[a][j].status = 429 /\ ~log[a][j].admitted

\* C10 happens: one failure, a success, four more failures, and the next
\* login was refused.
C10_Witness ==
    \E a \in Addrs :
        /\ AfterSuccess(a, 1, 7)
        /\ \A i \in 3..6 : log[a][i].admitted
        /\ log[a][7].status = 429

\* The step in which the response of the login in slot s finishes.
LoginFinishStep(s) ==
    reqs[s].kind = "login" /\ reqs[s].pc = "finish" /\ reqs'[s].pc = "idle"

\* C11: successful logins are not counted.  Logins of one address that are
\* sent one after another in one 15-minute window and all succeed are never
\* answered 429, however many they are, and when the response of such a login
\* has finished the address's count is what it was before the login arrived.
C11_SuccessExcluded ==
    /\ [](\A a \in Addrs : \A j \in 1..Len(log[a]) :
            ( /\ log[a][j].inWindow /\ log[a][j].solo
              /\ \A i \in 1..(j - 1) : log[a][i].status = 200 /\ log[a][i].solo )
            => (log[a][j].admitted /\ log[a][j].status # 429))
    /\ [][\A s \in Slots :
            ( /\ LoginFinishStep(s)
              /\ reqs[s].status = 200
              /\ log[reqs[s].ip][reqs[s].logIx].solo
              /\ now < hits[reqs[s].ip].resetTime )
            => hits'[reqs[s].ip].totalHits = log[reqs[s].ip][reqs[s].logIx].before]_vars

\* C11 happens: seven logins in one window all succeeded, the last of them
\* after failures were counted, and the count is what it was.
C11_Witness ==
    \E a \in Addrs :
        /\ Len(log[a]) = MaxLogins
        /\ Quiet
        /\ \A i \in 1..MaxLogins : log[a][i].status = 200 /\ log[a][i].inWindow
        /\ hits[a].totalHits = 0

\* C11 happens after failures too: a login succeeded when four were counted.
C11_WitnessCounted ==
    \E a \in Addrs : \E j \in 1..Len(log[a]) :
        /\ log[a][j].status = 200 /\ log[a][j].before = MaxHits - 1
        /\ Quiet /\ Len(log[a]) = j
        /\ hits[a].totalHits = MaxHits - 1

\* Nothing of the auth module has run: no request was taken, no token issued
\* and initializeAdminUser was not called.
NothingServed ==
    /\ \A s \in Slots : reqs[s].pc = "idle"
    /\ \A a \in Addrs : log[a] = << >>
    /\ issued = {}
    /\ boot.runs = 0

\* C12: in production with JWT_SECRET unset or empty the evaluation of the
\* auth module throws, so nothing of it ever runs; wherever the module is
\* loaded in production, tokens are not signed or verified with the fallback
\* secret.
C12_SecretFailFast ==
    /\ (env.NODE_ENV = "production" /\ Falsy(env.JWT_SECRET))
          => (boot.module \in {"unloaded", "threw"} /\ NothingServed)
    /\ (env.NODE_ENV = "production" /\ boot.module = "loaded")
          => JWT_SECRET # FallbackSecret
    /\ (\E s \in Slots : reqs[s].pc # "idle") => boot.module = "loaded"

\* C12 happens: production, JWT_SECRET set to the empty string, and the
\* module was evaluated and threw.
C12_Witness ==
    /\ env.NODE_ENV = "production"
    /\ env.JWT_SECRET = Env("")
    /\ boot.module = "threw"

\* C12's other side: outside production the fallback secret signs tokens.
C12_FallbackInDevelopment ==
    /\ env.NODE_ENV = "development"
    /\ Falsy(env.JWT_SECRET)
    /\ \E i \in issued : i.token.key = FallbackSecret

\* The rows of the store after a step that the step created or changed.
Written == {users'[id] : id \in {i \in DOMAIN users' : i \notin DOMAIN users \/ users'[i] # users[i]}}

\* C13: in production with ADMIN_PASSWORD not set, a call of
\* initializeAdminUser rejects and the store is never written to; and in
\* production no row is ever written whose hash is that of the default
\* password 'SecureAdmin123!'.
C13_PasswordFailFast ==
    /\ []((env.NODE_ENV = "production" /\ Falsy(env.ADMIN_PASSWORD) /\ boot.runs > 0)
            => ( /\ boot.pc = "done"
                 /\ boot.outcome = "rejected"
                 /\ boot.logged
                 /\ users = boot.before ))
    /\ [][(env.NODE_ENV = "production" /\ Falsy(env.ADMIN_PASSWORD)) => users' = users]_vars
    /\ [][env.NODE_ENV = "production"
            => \A row \in Written :
                  row = NoUser \/ row.passwordHash # hashPassword(DefaultAdminPassword)]_vars

\* C13 happens: production, ADMIN_PASSWORD undefined, no account with the
\* admin e-mail in the store, and initializeAdminUser was called and rejected.
C13_Witness ==
    /\ env.NODE_ENV = "production"
    /\ env.ADMIN_PASSWORD = Unset
    /\ boot.runs > 0
    /\ boot.outcome = "rejected"
    /\ boot.error = "ADMIN_PASSWORD required"
    /\ getUserByEmail(users, boot.adminEmail) = NoUser

\* C13's other side: in production with ADMIN_PASSWORD set the account is
\* created with that password.
C13_CreatedInProduction ==
    /\ env.NODE_ENV = "production"
    /\ boot.outcome = "resolved"
    /\ \E id \in DOMAIN users : id \notin Ids /\ users[id].passwordHash = hashPassword("pw1")

\* initializeAdminUser was called when the store held an account with the
\* configured admin e-mail.
AdminExisted == boot.runs > 0 /\ getUserByEmail(boot.before, boot.adminEmail) # NoUser

\* The original statement of C14: in every environment, a call of
\* initializeAdminUser that finds the store working and an account with the
\* admin e-mail in it completes without error and leaves the store unchanged.
C14_AlwaysNoOp ==
    (AdminExisted /\ boot.pc = "done" /\ boot.error # "getUserByEmail")
    => (boot.outcome = "resolved" /\ ~boot.logged /\ users = boot.before)

\* C14, amended: when the account with the admin e-mail exists the store is
\* left unchanged in every environment; the call completes without error if
\* the lookup succeeds, except in production with ADMIN_PASSWORD not set,
\* where it rejects before it looks.
C14_NoOpWhenExists ==
    AdminExisted
    => /\ users = boot.before
       /\ boot.pc = "done"
            => IF env.NODE_ENV = "production" /\ Falsy(env.ADMIN_PASSWORD)
               THEN boot.outcome = "rejected" /\ boot.error = "ADMIN_PASSWORD required"
               ELSE IF boot.error = "getUserByEmail" THEN boot.logged
               ELSE boot.outcome = "resolved" /\ boot.error = "" /\ ~boot.logged

\* C14 happens: the first call created the account and the second call found
\* it, completed without error and left the store as it was.
C14_Witness ==
    /\ boot.runs = 2
    /\ boot.pc = "done"
    /\ boot.outcome = "resolved" /\ ~boot.logged
    /\ \E id \in DOMAIN users :
          id \notin Ids /\ users[id].email = boot.adminEmail /\ users[id].role = "admin"
    /\ users = boot.before

\* The accounts of a store that hold the role 'admin'.
Admins(store) == {id \in DOMAIN store : store[id] # NoUser /\ store[id].role = "admin"}

\* initializeAdminUser has completed without an error raised in it.
BootCompleted ==
    boot.runs > 0 /\ boot.pc = "done" /\ boot.outcome = "resolved" /\ boot.error = ""

\* C15: after initializeAdminUser has completed without error, whatever the
\* store held before, exactly one account has the role 'admin', and it has
\* the configured admin e-mail and a password hash.
C15_ExactlyOneAdmin ==
    BootCompleted
    => /\ Cardinality(Admins(users)) = 1
       /\ \A id \in Admins(users) :
             users[id].email = boot.adminEmail /\ users[id].passwordHash # NoHash

\* What initializeAdminUser does ensure: after it has completed without error
\* one account has the admin e-mail; if none had it before, that account is
\* the one row added, with the role 'admin' and the hash of the configured
\* password; if one had it, the store is as it was, whatever its role and hash.
C15_AccountWithEmail ==
    BootCompleted
    => IF getUserByEmail(boot.before, boot.adminEmail) # NoUser
       THEN users = boot.before
       ELSE /\ \A id \in DOMAIN boot.before : users[id] = boot.before[id]
            /\ Cardinality(DOMAIN users \ DOMAIN boot.before) = 1
            /\ LET row == getUserByEmail(users, boot.adminEmail)
               IN  /\ row.id \notin DOMAIN boot.before
                   /\ row.role = "admin"
                   /\ row.passwordHash = hashPassword(boot.adminPassword)

\* The account with the admin e-mail was there with the role 'user' and no
\* hash; initializeAdminUser completed without error and no account has the
\* role 'admin'.
C15_NoAdminAfterBoot ==
    /\ BootCompleted
    /\ Admins(users) = {}
    /\ getUserByEmail(users, boot.adminEmail) # NoUser
    /\ getUserByEmail(users, boot.adminEmail).role = "user"
    /\ getUserByEmail(users, boot.adminEmail).passwordHash = NoHash

\* The errors raised in initializeAdminUser: the missing configuration and a
\* failure of each of the three awaited calls.
BootErrors == {"ADMIN_PASSWORD required", "getUserByEmail", "hashPassword", "upsertUser"}

\* The step in which an awaited call of initializeAdminUser settles.
BootSettles == boot.pc \in {"getUserByEmail", "hashPassword", "upsertUser"} /\ boot' # boot

\* C16: an error raised in initializeAdminUser ends the call and is logged;
\* outside production the call then resolves, in production it rejects with
\* that error.  Every failure of the lookup, the hasher or the upsert, and
\* the missing configuration, is such an error, and a call without one
\* resolves.
C16_ErrorsByEnvironment ==
    /\ [](boot.error # ""
            => ( /\ boot.error \in BootErrors
                 /\ boot.pc = "done"
                 /\ boot.logged
                 /\ boot.outcome = IF env.NODE_ENV = "production"
                                   THEN "rejected" ELSE "resolved" ))
    /\ []((boot.pc = "done" /\ boot.runs > 0 /\ boot.error = "")
            => (boot.outcome = "resolved" /\ ~boot.logged))
    /\ [][(BootSettles /\ boot'.error = "")
            => (boot'.pc # boot.pc /\ (boot.pc = "upsertUser" => users' # users))]_vars
    /\ [][(BootSettles /\ boot'.error # "")
            => (boot'.error = boot.pc /\ users' = users)]_vars

\* C16 happens: outside production the upsert failed, the error was logged
\* and the call resolved with the store as it was.
C16_Witness ==
    /\ env.NODE_ENV = "development"
    /\ boot.error = "upsertUser"
    /\ boot.logged
    /\ boot.outcome = "resolved"
    /\ users = boot.before

\* C16 happens in production: the hasher failed and the call rejected.
C16_RejectedInProduction ==
    /\ env.NODE_ENV = "production"
    /\ boot.error = "hashPassword"
    /\ boot.logged
    /\ boot.outcome = "rejected"

\* The scenario of C17: outside production, ADMIN_EMAIL and ADMIN_PASSWORD not
\* set, the store empty but for what initializeAdminUser wrote, and
\* initializeAdminUser completed without error.
BootedWithDefaults ==
    /\ env.NODE_ENV # "production"
    /\ env.ADMIN_EMAIL = Unset
    /\ env.ADMIN_PASSWORD = Unset
    /\ \A id \in Ids : users[id] = NoUser
    /\ BootCompleted

\* C17: in that scenario a login with 'admin@evolvo.uz' and
\* 'SecureAdmin123!' is answered 200 with user.role 'admin' and sets the
\* admin_token cookie, and a login with that e-mail and another password is
\* answered 401 with the body {message: 'Invalid credentials'}.
C17_BootThenLogin ==
    BootedWithDefaults
    => \A s \in Slots :
          ( /\ reqs[s].kind = "login" /\ reqs[s].pc = "finish"
            /\ reqs[s].email = DefaultAdminEmail
            /\ reqs[s].password # "" )
          => IF reqs[s].password = DefaultAdminPassword
             THEN /\ reqs[s].status = 200
                  /\ reqs[s].body.user.role = "admin"
                  /\ reqs[s].body.user.email = DefaultAdminEmail
                  /\ reqs[s].setCookie = "set"
                  /\ reqs[s].newToken # NoToken
             ELSE /\ reqs[s].status = 401
                  /\ reqs[s].body = InvalidCredentials
                  /\ reqs[s].setCookie = "none"

\* C17 happens: the store was empty, the bootstrap ran with the defaults and
\* the login with the default credentials was answered 200.
C17_Witness ==
    /\ BootedWithDefaults
    /\ DOMAIN users = Ids \cup {AdminId(0)}
    /\ \E s \in Slots :
          /\ reqs[s].kind = "login" /\ reqs[s].pc = "finish"
          /\ reqs[s].email = DefaultAdminEmail
          /\ reqs[s].password = DefaultAdminPassword
          /\ reqs[s].status = 200

\* C17's other login: another password was answered 401.
C17_WrongPassword ==
    /\ BootedWithDefaults
    /\ \E s \in Slots :
          /\ reqs[s].kind = "login" /\ reqs[s].pc = "finish"
          /\ reqs[s].email = DefaultAdminEmail
          /\ reqs[s].password = "pw1"
          /\ reqs[s].status = 401

\* A login without a password is answered 400, not 401.
C17_NoPassword ==
    /\ BootedWithDefaults
    /\ \E s \in Slots :
          /\ reqs[s].kind = "login" /\ reqs[s].pc = "finish"
          /\ reqs[s].email = DefaultAdminEmail
          /\ reqs[s].password = ""
          /\ reqs[s].status = 400

\* The statuses with which a login is refused or fails.
LoginFailures == {400, 401, 429, 500}

\* C18: a login response sets the admin_token cookie exactly when the login
\* succeeded, i.e. the account was found with the role 'admin' and a hash
\* that the password verifies against; a response with status 400, 401, 429
\* or 500 sets no cookie; the body of the success response holds the message
\* and the account's id, email and role and nothing else.
C18_CookieOnlyOnSuccess ==
    /\ \A s \in Slots :
          reqs[s].kind = "login"
          => /\ reqs[s].status \in LoginFailures \cup {0, 200}
             /\ reqs[s].status \in LoginFailures
                  => (reqs[s].setCookie = "none" /\ reqs[s].newToken = NoToken)
             /\ reqs[s].setCookie # "none"
                  => /\ reqs[s].setCookie = "set" /\ reqs[s].status = 200
                     /\ reqs[s].newToken # NoToken
                     /\ reqs[s].user # NoUser
                     /\ reqs[s].user.role = "admin"
                     /\ reqs[s].user.passwordHash # NoHash
                     /\ verifyPassword(reqs[s].password, reqs[s].user.passwordHash)
             /\ reqs[s].status = 200
                  => /\ reqs[s].setCookie = "set"
                     /\ DOMAIN reqs[s].body = {"message", "user"}
                     /\ reqs[s].body.user = [id |-> reqs[s].user.id,
                                              email |-> reqs[s].user.email,
                                              role |-> reqs[s].user.role]
    /\ \A a \in Addrs : \A j \in 1..Len(log[a]) :
          (log[a][j].setCookie = "set") <=> (log[a][j].status = 200)
    /\ cookie # NoToken => cookie \in IssuedTokens

\* C18 happens: logins were answered 400, 401 and 500 without a cookie and
\* one was answered 200 with it, and the client holds that cookie.
C18_Witness ==
    /\ Quiet
    /\ cookie # NoToken
    /\ \A code \in {200, 400, 401, 500} :
          \E j \in 1..Len(log["ip1"]) :
              /\ log["ip1"][j].status = code
              /\ log["ip1"][j].setCookie = IF code = 200 THEN "set" ELSE "none"

\* C18's other refusal: after failures of each kind the limiter answered 429,
\* and no response set a cookie.
C18_Limited ==
    /\ Quiet
    /\ cookie = NoToken
    /\ \A code \in {400, 401, 500, 429} :
          \E j \in 1..Len(log["ip1"]) :
              log["ip1"][j].status = code /\ log["ip1"][j].setCookie = "none"

\* The step in which the response of the request in slot s finishes.
FinishStep(s) == reqs[s].pc = "finish" /\ reqs'[s].pc = "idle"

\* C19: a request to a route behind authenticateAdmin that carries no
\* admin_token cookie is answered 401 at once: the store is not looked up, the
\* route's handler is not invoked, the response touches no cookie and the
\* client's cookie is what it was when the response has finished.
C19_NoTokenRejected ==
    /\ [](\A s \in Slots :
            (reqs[s].kind = "auth" /\ reqs[s].token = NoToken)
            => ( /\ reqs[s].pc = "finish"
                 /\ reqs[s].status = 401
                 /\ reqs[s].body = [message |-> "Admin authentication required"]
                 /\ reqs[s].lookups = 0
                 /\ reqs[s].setCookie = "none"
                 /\ ~reqs[s].nextCalled
                 /\ reqs[s].adminUser = NoPayload ))
    /\ [][\A s \in Slots :
            (FinishStep(s) /\ reqs[s].kind = "auth" /\ reqs[s].token = NoToken)
            => cookie' = cookie]_vars

\* C19 happens: the client holds the cookie of a login, and a request without
\* it was answered 401.
C19_Witness ==
    /\ cookie \in IssuedTokens
    /\ \E s \in Slots :
          /\ reqs[s].kind = "auth" /\ reqs[s].token = NoToken
          /\ reqs[s].status = 401

\* The reasons for which authenticateAdmin takes a presented token as
\* invalid at time at, read off the token itself.
Malformed(t) == t.form # "jwt"
BadSignature(t) == t.form = "jwt" /\ t.key # JWT_SECRET
Expired(t, at) == t.form = "jwt" /\ t.key = JWT_SECRET /\ (at \div 1000) >= t.exp
WrongClaims(t) ==
    t.form = "jwt" /\ t.key = JWT_SECRET /\ (t.type # "admin" \/ t.role # "admin")
Unacceptable(t, at) ==
    t # NoToken /\ (Malformed(t) \/ BadSignature(t) \/ Expired(t, at) \/ WrongClaims(t))

\* The request in slot s was answered 403 by authenticateAdmin before the
\* store was looked up, with no cookie touched and the handler not invoked.
Refused403(s) ==
    /\ reqs[s].pc = "finish"
    /\ reqs[s].status = 403
    /\ reqs[s].body = [message |-> "Admin access required"]
    /\ reqs[s].lookups = 0
    /\ reqs[s].setCookie = "none"
    /\ ~reqs[s].nextCalled
    /\ reqs[s].adminUser = NoPayload

\* C20: a request whose token is malformed, carries another signature, has
\* expired, or carries a type or a role other than 'admin' is answered 403,
\* never 500, without a store lookup, with no cookie cleared and without the
\* handler; verifyToken returns null for every token that fails verification,
\* and the client's cookie is what it was when the response has finished.
C20_InvalidTokenRejected ==
    /\ [](\A s \in Slots :
            (reqs[s].kind = "auth" /\ Unacceptable(reqs[s].token, reqs[s].checkedAt))
            => Refused403(s))
    /\ [](\A s \in Slots :
            ( /\ reqs[s].kind = "auth" /\ reqs[s].token # NoToken
              /\ \/ Malformed(reqs[s].token)
                 \/ BadSignature(reqs[s].token)
                 \/ Expired(reqs[s].token, reqs[s].checkedAt) )
            => verifyToken(reqs[s].token, reqs[s].checkedAt) = NoPayload)
    /\ [][\A s \in Slots :
            ( /\ FinishStep(s) /\ reqs[s].kind = "auth"
              /\ Unacceptable(reqs[s].token, reqs[s].checkedAt) )
            => cookie' = cookie]_vars

\* C20 happens: the cookie a login set has expired, the request that carried
\* it was answered 403, and the client still holds it.
C20_Witness ==
    /\ cookie \in IssuedTokens
    /\ \E s \in Slots :
          /\ reqs[s].kind = "auth" /\ reqs[s].token = cookie
          /\ Expired(cookie, reqs[s].checkedAt)
          /\ getUser(users, cookie.userId) # NoUser
          /\ getUser(users, cookie.userId).role = "admin"
          /\ Refused403(s)

\* C20 happens for each other reason: a malformed token, a token with another
\* signature and tokens with a wrong type or role were answered 403.
C20_Malformed ==
    \E s \in Slots : reqs[s].kind = "auth" /\ Malformed(reqs[s].token) /\ Refused403(s)
C20_BadSignature ==
    \E s \in Slots : reqs[s].kind = "auth" /\ BadSignature(reqs[s].token) /\ Refused403(s)
C20_WrongType ==
    \E s \in Slots : reqs[s].kind = "auth" /\ reqs[s].token = WrongTypeToken /\ Refused403(s)
C20_WrongRole ==
    \E s \in Slots : reqs[s].kind = "auth" /\ reqs[s].token = WrongRoleToken /\ Refused403(s)

\* C21: when the store lookup of a request that carries a valid admin token
\* finds no account under the token's userId, the request is answered 403,
\* the response clears the admin_token cookie and the route's handler is not
\* invoked; the client's cookie is gone when the response has finished.
C21_AccountMissing ==
    /\ [][\A s \in Slots :
            (LookupStep(s) /\ getUser(users, reqs[s].decoded.userId) = NoUser)
            => ( /\ reqs'[s].pc = "finish"
                 /\ reqs'[s].status = 403
                 /\ reqs'[s].body = [message |-> "Admin access revoked"]
                 /\ reqs'[s].setCookie = "clear"
                 /\ ~reqs'[s].nextCalled
                 /\ reqs'[s].adminUser = NoPayload )]_vars
    /\ [][\A s \in Slots :
            ( /\ FinishStep(s) /\ reqs[s].kind = "auth"
              /\ reqs[s].lookups = 1 /\ reqs[s].user = NoUser )
            => cookie' = NoToken]_vars

\* C21 happens: the account of a login was deleted, and the request that
\* carried the login's cookie, still valid, was answered 403 with the cookie
\* cleared.
C21_Witness ==
    \E s \in Slots :
        /\ reqs[s].kind = "auth" /\ reqs[s].pc = "finish"
        /\ reqs[s].token = cookie
        /\ cookie \in IssuedTokens
        /\ ~jwtVerifyThrows(cookie, JWT_SECRET, reqs[s].checkedAt)
        /\ getUser(users, cookie.userId) = NoUser
        /\ reqs[s].status = 403 /\ reqs[s].setCookie = "clear"
        /\ ~reqs[s].nextCalled

\* The logins of address a that were counted in the limiter's window ending
\* at w, were passed to the handler and ended without success.
AdmittedFailures(a, w) ==
    {j \in 1..Len(log[a]) :
        log[a][j].resetTime = w /\ log[a][j].admitted /\ log[a][j].status >= 400}

\* C22: whatever the interleaving of the parallel logins of one address, in
\* one window of the limiter at most five logins that end without success are
\* passed to the login handler.
C22_AtMostFiveAdmitted ==
    \A a \in Addrs : \A j \in 1..Len(log[a]) :
        Cardinality(AdmittedFailures(a, log[a][j].resetTime)) <= MaxHits

\* What does hold of the limiter under parallel logins: the hit is counted and
\* compared in the step in which the login arrives, against the count of the
\* window as it stands.
C22_IncrementAndCheck ==
    [][\A a \in Addrs :
         Len(log'[a]) = Len(log[a]) + 1
         => LET e == log'[a][Len(log'[a])]
            IN  /\ hits'[a].totalHits = e.before + 1
                /\ e.admitted <=> (e.before + 1 <= MaxHits)]_vars

\* The undercount: a successful login that arrived in the window before
\* finished in this one and took a hit of this window away, and six failed
\* logins of this window were passed to the handler.
C22_SixAdmitted ==
    \E a \in Addrs : \E j \in 1..Len(log[a]) :
        /\ Cardinality(AdmittedFailures(a, log[a][j].resetTime)) = MaxHits + 1
        /\ \A i \in AdmittedFailures(a, log[a][j].resetTime) : log[a][i].status = 401
        /\ log[a][1].status = 200 /\ log[a][1].resetTime < log[a][j].resetTime

\* The logins of address a before login j that ended without success and
\* arrived in the 15 minutes before login j arrived.
Trailing(a, j) ==
    {i \in 1..(j - 1) :
        log[a][i].status >= 400 /\ log[a][i].at > log[a][j].at - WindowMs}

\* The logins of address a before login j that ended without success and
\* were counted in the limiter's window in which login j was counted.
InWindowOf(a, j) ==
    {i \in 1..(j - 1) :
        log[a][i].status >= 400 /\ log[a][i].resetTime = log[a][j].resetTime}

\* The original statement of C23: a login is answered 429 exactly when five
\* or more logins of its address ended without success in the 15 minutes
\* before it, and a login that arrives 15 minutes or more after the address's
\* last one is admitted.
C23_SlidingWindow ==
    \A a \in Addrs : \A j \in 1..Len(log[a]) :
        /\ ~log[a][j].admitted <=> Cardinality(Trailing(a, j)) >= MaxHits
        /\ (j > 1 /\ log[a][j].at >= log[a][j - 1].at + WindowMs) => log[a][j].admitted

\* What the limiter does where C23 asks for a trailing window: the window
\* is fixed.  It opens when a login of the address
\* arrives and the address has no window or its window has ended, and it ends
\* 15 minutes later; of logins sent one after another, a login is answered
\* 429 exactly when five or more logins counted in its window ended without
\* success before it; a login that arrives 15 minutes or more after the
\* address's last one is admitted.
C23_FixedWindow ==
    \A a \in Addrs : \A j \in 1..Len(log[a]) :
        /\ ~log[a][j].admitted <=> Cardinality(InWindowOf(a, j)) >= MaxHits
        /\ ~log[a][j].admitted => log[a][j].status = 429
        /\ log[a][j].at < log[a][j].resetTime
        /\ log[a][j].resetTime <= log[a][j].at + WindowMs
        /\ IF j > 1 /\ log[a][j].at < log[a][j - 1].resetTime
           THEN log[a][j].resetTime = log[a][j - 1].resetTime
           ELSE log[a][j].resetTime = log[a][j].at + WindowMs
        /\ (j > 1 /\ log[a][j].at >= log[a][j - 1].at + WindowMs) => log[a][j].admitted

\* C23 fails: the sixth login of a window was answered 429, and the login
\* that arrived when the window had ended was admitted with five logins
\* without success in the 15 minutes before it.
C23_Witness ==
    \E a \in Addrs : \E j, k \in 1..Len(log[a]) :
        /\ k < j
        /\ log[a][k].status = 429
        /\ log[a][j].admitted
        /\ log[a][j].resetTime > log[a][k].resetTime
        /\ Cardinality(Trailing(a, j)) >= MaxHits

\* C23's last part happens: a login arrived 15 minutes after the one before
\* it and was admitted.
C23_AfterPause ==
    \E a \in Addrs : \E j \in 2..Len(log[a]) :
        log[a][j].at = log[a][j - 1].at + WindowMs /\ log[a][j].admitted

\* C24: a login during which the store or the password verifier throws is
\* answered 500 with the message 'Login failed', not 401, and sets no cookie;
\* a request during whose authenticateAdmin the store throws is answered 500
\* and its handler is not invoked; a response is 500 only then, and the
\* client's cookie is what it was when such a response has finished.
C24_InternalFailure ==
    /\ [](\A s \in Slots :
            /\ (reqs[s].kind = "login" /\ reqs[s].threw # "")
                 => ( /\ reqs[s].pc = "finish"
                      /\ reqs[s].status = 500
                      /\ reqs[s].body = [message |-> "Login failed"]
                      /\ reqs[s].setCookie = "none"
                      /\ reqs[s].newToken = NoToken )
            /\ (reqs[s].kind = "auth" /\ reqs[s].threw # "")
                 => ( /\ reqs[s].pc = "finish"
                      /\ reqs[s].status = 500
                      /\ reqs[s].body = [message |-> "Authentication error"]
                      /\ ~reqs[s].nextCalled
                      /\ reqs[s].adminUser = NoPayload
                      /\ reqs[s].setCookie = "none" )
            /\ reqs[s].status = 500 => reqs[s].threw # "")
    /\ [][\A s \in Slots : (FinishStep(s) /\ reqs[s].threw # "") => cookie' = cookie]_vars

\* C24 happens: the password verifier threw during a login with the right
\* password, and the login was answered 500 without a cookie.
C24_Witness ==
    \E s \in Slots :
        /\ reqs[s].kind = "login" /\ reqs[s].threw = "verifyPassword"
        /\ reqs[s].password = "pw1"
        /\ reqs[s].user = BootRow
        /\ reqs[s].status = 500

\* C24 happens in the middleware: the store threw while a login's cookie was
\* checked, and the request was answered 500.
C24_AuthFailure ==
    \E s \in Slots :
        /\ reqs[s].kind = "auth" /\ reqs[s].threw = "getUser"
        /\ reqs[s].token = cookie /\ cookie \in IssuedTokens
        /\ reqs[s].status = 500

\* The requests in slots a and b are both answered, with the same status.
RejectedAlike(a, b, kind) ==
    /\ reqs[a].kind = kind /\ reqs[b].kind = kind
    /\ reqs[a].pc = "finish" /\ reqs[b].pc = "finish"
    /\ reqs[a].status = reqs[b].status
    /\ reqs[a].logged # reqs[b].logged

\* C25: two requests that authenticateAdmin rejects with the same status for
\* different reasons get the same response body, and so do two logins
\* rejected with 401 for different reasons.
C25_SameBodies ==
    \A a, b \in Slots :
        /\ (RejectedAlike(a, b, "auth") /\ reqs[a].status >= 400)
             => reqs[a].body = reqs[b].body
        /\ (RejectedAlike(a, b, "login") /\ reqs[a].status = 401)
             => reqs[a].body = reqs[b].body

\* The body tells a deleted account from a downgraded one: two requests with
\* tokens of the same login, both answered 403, with different messages.
C25_ReasonRevealed ==
    \E a, b \in Slots :
        /\ RejectedAlike(a, b, "auth")
        /\ reqs[a].token \in IssuedTokens /\ reqs[b].token = reqs[a].token
        /\ reqs[a].status = 403
        /\ reqs[a].body = [message |-> "Admin access revoked"]
        /\ reqs[b].body = [message |-> "Admin privileges revoked"]

\* The step in which the handler of the content request in slot s is
\* entered, and the one in which an await of it settles.
HandlerEntry(s) ==
    ~reqs[s].entered /\ reqs'[s].kind = "route" /\ reqs'[s].entered
StoreStep(s) ==
    reqs[s].kind = "route" /\ reqs[s].pc \in {"store", "store2"} /\ reqs'[s].pc # reqs[s].pc

\* authenticateAdmin called next() for the request: its token was issued by
\* a login and acceptable when checked, and the row found was an admin's.
Passed(r) ==
    /\ r.nextCalled
    /\ r.token \in IssuedTokens /\ ~Unacceptable(r.token, r.checkedAt)
    /\ r.user # NoUser /\ r.user.role = "admin"

\* The routes that create, update or delete services, clients or blog posts.
WritesContent(route) ==
    /\ route.table \in {"services", "clients", "blogPosts"}
    /\ route.op \in {"create", "update", "delete"}

\* The other routes the claim lists: orders through /api/admin/orders, the
\* list of inquiries and an inquiry's status, AI service content.
ListedElsewhere(route) ==
    \/ route.path \in {"/api/admin/orders", "/api/admin/orders/:id"}
    \/ route.table = "inquiries" /\ route.op \in {"list", "status"}
    \/ route.op = "generate"

\* C26 as stated: the handler of every route that creates, updates or
\* deletes services, clients or blog posts (the view counter updates a blog
\* post), and of every other listed route, is entered only after
\* authenticateAdmin has called next() for the request.
C26_EveryWriteGated ==
    [][\A s \in Slots :
          ( /\ HandlerEntry(s)
            /\ \/ WritesContent(reqs'[s].route)
               \/ ListedElsewhere(reqs'[s].route)
               \/ (reqs'[s].route.table = "blogPosts" /\ reqs'[s].route.op = "view") )
          => Passed(reqs'[s])]_vars

\* The tables the claim is about.
ClaimTables == {"services", "orders", "clients", "blogPosts", "inquiries"}

\* What a request without a token can do to these tables: count a view on a
\* blog post it read as published, create an order, create an inquiry.
PublicWrite(r, row, after) ==
    \/ /\ r.route.method = "POST" /\ r.route.path = "/api/blog-posts/:id/view"
       /\ r.seen.present /\ r.seen.status = "published"
       /\ row.present /\ after = [row EXCEPT !.viewCount = @ + 1]
    \/ /\ r.route.method = "POST" /\ r.route.path = "/api/orders"
       /\ ~row.present /\ after = Row(0, "pending", 0)
    \/ /\ r.route.method = "POST" /\ r.route.path = "/api/inquiries"
       /\ ~row.present /\ \E st \in RowStatuses("inquiries") : after = Row(0, st, 0)

\* A step of no request: storage.updateOrderStatus called directly.
OrderStatusCall ==
    /\ reqs' = reqs
    /\ \E st \in RowStatuses("orders") :
          data' = [data EXCEPT !["orders"] = updateOrderStatus(@, st)]

\* C26, amended: the handler of every listed route other than the view
\* counter is entered, and makes its storage calls, only after
\* authenticateAdmin has called next() for the request; and every change a
\* request makes to one of the five tables is made by the storage call of a
\* request that passed authenticateAdmin, or is a view counted on a blog
\* post that was published when the view's handler read it, a new order
\* with status 'pending' or a new inquiry.
C26_AdminRoutesGated ==
    /\ [][\A s \in Slots :
            ( /\ HandlerEntry(s) \/ StoreStep(s)
              /\ WritesContent(reqs'[s].route) \/ ListedElsewhere(reqs'[s].route) )
              => Passed(reqs'[s])]_vars
    /\ [][\A t \in ClaimTables :
            (data'[t] # data[t] /\ ~OrderStatusCall)
              => \E s \in Slots :
                    /\ StoreStep(s) /\ reqs[s].route.table = t
                    /\ Passed(reqs[s]) \/ PublicWrite(reqs[s], data[t], data'[t])]_vars

\* C26 happens: the administrator's cookie was presented to
\* POST /api/services and the service was created.
C26_Witness ==
    \E s \in Slots :
        /\ reqs[s].kind = "route" /\ reqs[s].pc = "finish"
        /\ reqs[s].route.method = "POST" /\ reqs[s].route.path = "/api/services"
        /\ reqs[s].token = cookie
        /\ Passed(reqs[s]) /\ reqs[s].status = 201
        /\ data["services"].present /\ data["services"].status = "inactive"

\* C26's other side: DELETE /api/services/:id asked without a token is
\* answered 401, its handler is not entered and the service stays.
C26_Refused ==
    \E s \in Slots :
        /\ reqs[s].kind = "route" /\ reqs[s].pc = "finish"
        /\ reqs[s].route = DeleteService
        /\ reqs[s].token = NoToken /\ reqs[s].status = 401
        /\ ~reqs[s].nextCalled /\ ~reqs[s].entered
        /\ data["services"].present

\* A request without a token has changed a blog post.
C26_ViewCounted ==
    \E s \in Slots :
        /\ reqs[s].kind = "route" /\ reqs[s].pc = "finish"
        /\ reqs[s].route.op = "view"
        /\ reqs[s].token = NoToken /\ reqs[s].status = 204
        /\ data["blogPosts"].present /\ data["blogPosts"].viewCount = 1

\* The step in which a logout request arrives, and the one in which its
\* response is received.
LogoutStep ==
    \E s \in Slots :
        \/ reqs[s].pc = "idle" /\ reqs'[s].kind = "logout"
        \/ reqs[s].kind = "logout" /\ reqs[s].pc = "finish" /\ reqs'[s].pc = "idle"

\* C27: a logout changes nothing on the server (the users table, the content
\* tables, the limiter's counters), and a request that presents a logged-out
\* token again before its expiry, while the account exists with role
\* 'admin', is accepted by authenticateAdmin and reaches the handler.
C27_LogoutKeepsToken ==
    /\ [][LogoutStep => UNCHANGED <<users, data, hits>>]_vars
    /\ [](\A s \in Slots :
            ( /\ reqs[s].kind = "auth" /\ reqs[s].pc = "finish"
              /\ reqs[s].token \in loggedOut
              /\ reqs[s].token \in IssuedTokens
              /\ ~Unacceptable(reqs[s].token, reqs[s].checkedAt)
              /\ reqs[s].lookups = 1 /\ reqs[s].threw = ""
              /\ reqs[s].user # NoUser /\ reqs[s].user.role = "admin" )
            => ( /\ reqs[s].nextCalled
                 /\ reqs[s].status = 200
                 /\ reqs[s].body.id = reqs[s].token.userId ))

\* C27 happens: the client has logged out and has no cookie, and a retained
\* copy of the token it logged out with has been accepted.
C27_Witness ==
    \E s \in Slots :
        /\ reqs[s].kind = "auth" /\ reqs[s].pc = "finish"
        /\ reqs[s].token \in loggedOut /\ reqs[s].token \in IssuedTokens
        /\ cookie = NoToken
        /\ reqs[s].nextCalled /\ reqs[s].status = 200

\* C28: a token of a login that authenticateAdmin has answered 403 is
\* accepted again on a later request whenever it is unexpired and the row
\* the store then has for its account has role 'admin': the refusal in
\* between leaves no record.
C28_RestoredRoleAccepted ==
    \A s \in Slots :
        ( /\ reqs[s].kind = "auth" /\ reqs[s].pc = "finish"
          /\ reqs[s].token \in {x.token : x \in refused}
          /\ ~Unacceptable(reqs[s].token, reqs[s].checkedAt)
          /\ reqs[s].lookups = 1 /\ reqs[s].threw = ""
          /\ reqs[s].user # NoUser /\ reqs[s].user.role = "admin" )
        => ( /\ reqs[s].nextCalled
             /\ reqs[s].status = 200
             /\ reqs[s].adminUser = Payload(reqs[s].token) )

\* C28 happens: the role was taken away and given back (two writes), the
\* token was answered 403 in between and is accepted now.
C28_Witness ==
    \E s \in Slots :
        /\ reqs[s].kind = "auth" /\ reqs[s].pc = "finish"
        /\ [token |-> reqs[s].token, event |-> "AUTH_ROLE_REVOKED"] \in refused
        /\ upserts = 2
        /\ users["u1"] # NoUser /\ users["u1"].role = "admin"
        /\ reqs[s].nextCalled /\ reqs[s].status = 200

\* C29: the identity authenticateAdmin attaches to an accepted request and
\* GET /api/auth/admin returns is the token's claims (userId, email and role
\* as of login), whatever e-mail the account's row has now; a request whose
\* account's e-mail was changed while its role stayed 'admin' still passes.
C29_IdentityFromToken ==
    \A s \in Slots :
        ( /\ reqs[s].kind = "auth" /\ reqs[s].pc = "finish"
          /\ reqs[s].token \in IssuedTokens
          /\ ~Unacceptable(reqs[s].token, reqs[s].checkedAt)
          /\ reqs[s].lookups = 1 /\ reqs[s].threw = ""
          /\ reqs[s].user # NoUser /\ reqs[s].user.role = "admin" )
        => ( /\ reqs[s].nextCalled
             /\ reqs[s].adminUser = Payload(reqs[s].token)
             /\ reqs[s].status = 200
             /\ reqs[s].body = [id |-> reqs[s].token.userId,
                                email |-> reqs[s].token.email,
                                role |-> reqs[s].token.role] )

\* C29 happens: the account's e-mail was changed after login, and the
\* response carries the e-mail of the login.
C29_Witness ==
    \E s \in Slots :
        /\ reqs[s].kind = "auth" /\ reqs[s].pc = "finish"
        /\ reqs[s].token \in IssuedTokens
        /\ reqs[s].status = 200
        /\ reqs[s].user.role = "admin"
        /\ reqs[s].user.email # reqs[s].token.email
        /\ users[reqs[s].token.userId] = reqs[s].user
        /\ reqs[s].body.email = reqs[s].token.email

\* The logins of address a before the j-th that were answered 400 or above.
ErrorsBefore(a, j) == {i \in 1..(j - 1) : log[a][i].status >= 400}

\* C30: for logins of one address sent one after another in one window, the
\* count a login finds is the number of earlier logins answered with any
\* status of 400 or above (400, 401, 429, 500); a login that finds five or
\* more is answered 429 without the handler, whatever its credentials; and
\* between requests the limiter's count is the number of all such logins,
\* those answered 429 among them.
C30_EveryErrorCounts ==
    /\ \A j \in 1..Len(log["ip1"]) :
          /\ log["ip1"][j].before = Cardinality(ErrorsBefore("ip1", j))
          /\ log["ip1"][j].before >= MaxHits
               => (log["ip1"][j].status = 429 /\ ~log["ip1"][j].admitted)
    /\ Quiet => hits["ip1"].totalHits = Cardinality(ErrorsBefore("ip1", Len(log["ip1"]) + 1))

\* C30 happens: five logins answered 400 or 500, none 401, and the sixth,
\* with the administrator's e-mail and password, was answered 429.
C30_Witness ==
    \E s \in Slots :
        /\ reqs[s].kind = "login" /\ reqs[s].logIx = MaxHits + 1
        /\ reqs[s].email = EmailA /\ reqs[s].password = "pw1"
        /\ users["u1"] = BootRow
        /\ reqs[s].status = 429
        /\ \A i \in 1..MaxHits : log["ip1"][i].status \in {400, 500}
        /\ \E i \in 1..MaxHits : log["ip1"][i].status = 400
        /\ \E i \in 1..MaxHits : log["ip1"][i].status = 500

\* C30 happens: the login answered 429 is in the count.
C30_RejectionCounted ==
    /\ Quiet
    /\ Len(log["ip1"]) = MaxHits + 1
    /\ log["ip1"][MaxHits + 1].status = 429
    /\ hits["ip1"].totalHits = MaxHits + 1

====
